---- MODULE Spec2Model ----
(***************************************************************************)
(* The streaming state machine of apibara-dna: the sequential cursor       *)
(* producer (starknet/src/stream/cursor_producer.rs) driven by the data    *)
(* stream loop (node/src/stream/data.rs).                                  *)
(*                                                                         *)
(* A cursor is a record [number, hash].  The 32-byte hash is abstracted to *)
(* three values: 0 is the all-zero hash of a number-only hint, 1 and 2 are *)
(* two distinct block hashes (two competing chains).  An Option<T> value   *)
(* is a sequence of length at most one: <<>> is None and <<x>> is Some(x). *)
(* A Result carries a tag "Ok" / "Err" (and "Panic" where the arithmetic   *)
(* of a build with overflow checks aborts the task).                       *)
(***************************************************************************)
EXTENDS Integers, Sequences, FiniteSets, TLC

\* Highest block number of the model.
MaxBlock == 1
\* Largest batch_size a client configuration carries in the model.
MaxBatch == 2

\* u64::MAX, the result of the wrapping 0 - 1; it stands above every block
\* number of the model (TLC integers are 32 bits wide).
U64Max == 2147483647

None == <<>>
Some(x) == <<x>>
IsSome(o) == o # <<>>
Get(o) == o[1]

Numbers == 0..MaxBlock
BlockHashes == {1, 2}
Cursor(n, h) == [number |-> n, hash |-> h]
Cursors == {Cursor(n, h) : n \in Numbers, h \in BlockHashes}
Hints == {Cursor(n, 0) : n \in Numbers}

\* DataFinality of apibara_core::node::v1alpha2.
Finalities == {"Unknown", "Finalized", "Accepted", "Pending"}

Min(a, b) == IF a < b THEN a ELSE b

(***************************************************************************)
(* StorageReader.  Storage is an external collaborator: every operation    *)
(* of the producer reads one snapshot s of it.  The canonical chain has    *)
(* the blocks 0..s.known-1 with hash s.chain, the first s.l1 of them       *)
(* finalized (AcceptedOnL1), the others AcceptedOnL2; its highest accepted *)
(* and finalized blocks are the ones below s.acc and s.l1.  The blocks of  *)
(* the other hash with number >= s.fork are known as Rejected, and the     *)
(* parent of a block is the block below it on its own branch, or on the    *)
(* canonical chain below the fork.  s.headers says whether read_header     *)
(* finds the headers, s.fail names the storage call that fails ("none"     *)
(* when none does), s.overflow_checks the build profile.                   *)
(***************************************************************************)
Ok(v) == [tag |-> "Ok", value |-> v]
Err(e) == [tag |-> "Err", value |-> e]

Snapshot(chain, known, acc, l1, fork, headers, fail, overflow_checks) ==
    [chain |-> chain, known |-> known, acc |-> acc, l1 |-> l1, fork |-> fork,
     headers |-> headers, fail |-> fail, overflow_checks |-> overflow_checks]

Tip(n, chain) == IF n = 0 THEN None ELSE Some(Cursor(n - 1, chain))

ChainStatus(s, c) ==
    IF c.hash = s.chain
    THEN (IF c.number < s.known
          THEN Some(IF c.number < s.l1 THEN "AcceptedOnL1" ELSE "AcceptedOnL2")
          ELSE None)
    ELSE (IF c.number >= s.fork THEN Some("Rejected") ELSE None)

ChainParent(s, c) ==
    IF c.number = 0 \/ ~s.headers THEN None
    ELSE Some(Cursor(c.number - 1,
                     IF c.hash # s.chain /\ c.number - 1 >= s.fork
                     THEN c.hash ELSE s.chain))

canonical_block_id(s, n) ==
    IF s.fail = "canonical_block_id" THEN Err("Internal")
    ELSE Ok(IF n < s.known THEN Some(Cursor(n, s.chain)) ELSE None)

highest_accepted_block(s) ==
    IF s.fail = "highest_accepted_block" THEN Err("Internal") ELSE Ok(Tip(s.acc, s.chain))

highest_finalized_block(s) ==
    IF s.fail = "highest_finalized_block" THEN Err("Internal") ELSE Ok(Tip(s.l1, s.chain))

read_status(s, c) ==
    IF s.fail = "read_status" THEN Err("Internal") ELSE Ok(ChainStatus(s, c))

read_header(s, c) ==
    IF s.fail = "read_header" THEN Err("Internal") ELSE Ok(ChainParent(s, c))

is_accepted(status) == status = "AcceptedOnL2"
is_finalized(status) == status = "AcceptedOnL1"

(***************************************************************************)
(* BatchCursor and the batch configuration.                                *)
(***************************************************************************)
new_finalized(start, cursors) ==
    [kind |-> "Finalized", start |-> start, cursors |-> cursors]
new_accepted(start, c) ==
    [kind |-> "Accepted", start |-> start, cursors |-> <<c>>]
new_pending(start, c) ==
    [kind |-> "Pending", start |-> start, cursors |-> <<c>>]
end_cursor(batch) == batch.cursors[Len(batch.cursors)]

BatchConfiguration(current, pending_sent, data_finality, batch_size) ==
    [current |-> current, pending_sent |-> pending_sent,
     data_finality |-> data_finality, batch_size |-> batch_size]

IngestionState(finalized, accepted, pending) ==
    [finalized |-> finalized, accepted |-> accepted, pending |-> pending]

\* The producer as a value: what the methods read and return updated.
Producer(cfg, ist, wk) ==
    [configuration |-> cfg, ingestion_state |-> ist, waker |-> wk]

\* The outcome of a method: a Result, the producer after the call, and
\* whether the stored waker was woken.
Outcome(res, p, woke) == [res |-> res, producer |-> p, woke |-> woke]

\* get_ingestion_state_mut: reads storage only when no state is cached.
get_ingestion_state_mut(p, s) ==
    IF IsSome(p.ingestion_state) THEN Ok(p.ingestion_state)
    ELSE LET accepted == highest_accepted_block(s)
             finalized == highest_finalized_block(s)
         IN  IF accepted.tag = "Err" THEN accepted
             ELSE IF finalized.tag = "Err" THEN finalized
             ELSE Ok(Some(IngestionState(finalized.value, accepted.value, None)))

\* A loop that gives up every cursor when storage lacks one of the run.
collect_cursors_all_or_none(s, block_number, final_block_number, cursors) ==
    IF \A n \in block_number..final_block_number :
           canonical_block_id(s, n) \notin {Err("Internal"), Ok(None)}
    THEN Ok([i \in 1..(final_block_number - block_number + 1) |->
                Get(canonical_block_id(s, block_number + i - 1).value)])
    ELSE Ok(<<>>)

\* The for loop of next_cursor_finalized: the canonical ids of
\* block_number..final_block_number, up to the first absent one.
RECURSIVE collect_cursors(_, _, _, _)
collect_cursors(s, block_number, final_block_number, cursors) ==
    IF block_number > final_block_number THEN Ok(cursors)
    ELSE LET r == canonical_block_id(s, block_number)
         IN  IF r.tag = "Err" THEN r
             ELSE IF r.value = None THEN Ok(cursors)
             ELSE collect_cursors(s, block_number + 1, final_block_number,
                                  Append(cursors, Get(r.value)))

\* next_block_number + batch_size - 1 in u64: with overflow checks the
\* subtraction below zero aborts the task, without them it wraps.
batch_end(next_block_number, batch_size, overflow_checks) ==
    IF next_block_number + batch_size = 0
    THEN (IF overflow_checks THEN [tag |-> "Panic", value |-> 0] ELSE Ok(U64Max))
    ELSE Ok(next_block_number + batch_size - 1)

(***************************************************************************)
(* SequentialCursorProducer: producing the next batch cursor.  The         *)
(* next_cursor_* operators return the Result of the call and the           *)
(* configuration after it.                                                 *)
(***************************************************************************)
Produced(res, configuration) == [res |-> res, configuration |-> configuration]

\* A finalized path that forgets to advance current.
next_cursor_finalized_stuck(configuration, starting_cursor, next_block_number, finalized, s) ==
    LET Batch(cursors) ==
            IF cursors.tag = "Err" THEN Produced(cursors, configuration)
            ELSE IF cursors.value = <<>> THEN Produced(Ok(None), configuration)
            ELSE Produced(Ok(Some(new_finalized(starting_cursor, cursors.value))),
                          configuration)
        Loop(last) ==
            IF last.tag = "Panic" THEN Produced(last, configuration)
            ELSE Batch(collect_cursors(s, next_block_number,
                                       Min(finalized.number, last.value), <<>>))
    IN  Loop(batch_end(next_block_number, configuration.batch_size, s.overflow_checks))

next_cursor_finalized(configuration, starting_cursor, next_block_number, finalized, s) ==
    LET Batch(cursors) ==
            IF cursors.tag = "Err" THEN Produced(cursors, configuration)
            ELSE IF cursors.value = <<>> THEN Produced(Ok(None), configuration)
            ELSE Produced(Ok(Some(new_finalized(starting_cursor, cursors.value))),
                          [configuration EXCEPT
                              !.current = Some(cursors.value[Len(cursors.value)])])
        Loop(last) ==
            IF last.tag = "Panic" THEN Produced(last, configuration)
            ELSE Batch(collect_cursors(s, next_block_number,
                                       Min(finalized.number, last.value), <<>>))
    IN  Loop(batch_end(next_block_number, configuration.batch_size, s.overflow_checks))

\* An accepted path that forgets to advance current.
next_cursor_accepted_stuck(configuration, starting_cursor, next_block_number, s) ==
    LET Match(r) ==
            IF r.tag = "Err" THEN Produced(r, configuration)
            ELSE IF r.value = None THEN Produced(Ok(None), configuration)
            ELSE Produced(Ok(Some(new_accepted(starting_cursor, Get(r.value)))),
                          configuration)
    IN  IF configuration.data_finality = "Finalized"
           \/ configuration.data_finality = "Unknown"
        THEN Produced(Ok(None), configuration)
        ELSE Match(canonical_block_id(s, next_block_number))

\* An accepted path without the check of data_finality.
next_cursor_accepted_unfiltered(configuration, starting_cursor, next_block_number, s) ==
    LET Match(r) ==
            IF r.tag = "Err" THEN Produced(r, configuration)
            ELSE IF r.value = None THEN Produced(Ok(None), configuration)
            ELSE Produced(Ok(Some(new_accepted(starting_cursor, Get(r.value)))),
                          [configuration EXCEPT !.current = r.value])
    IN  Match(canonical_block_id(s, next_block_number))

\* An accepted path for the streams of Accepted finality only.
next_cursor_accepted_only(configuration, starting_cursor, next_block_number, s) ==
    LET Match(r) ==
            IF r.tag = "Err" THEN Produced(r, configuration)
            ELSE IF r.value = None THEN Produced(Ok(None), configuration)
            ELSE Produced(Ok(Some(new_accepted(starting_cursor, Get(r.value)))),
                          [configuration EXCEPT !.current = r.value])
    IN  IF configuration.data_finality # "Accepted"
        THEN Produced(Ok(None), configuration)
        ELSE Match(canonical_block_id(s, next_block_number))

next_cursor_accepted(configuration, starting_cursor, next_block_number, s) ==
    LET Match(r) ==
            IF r.tag = "Err" THEN Produced(r, configuration)
            ELSE IF r.value = None THEN Produced(Ok(None), configuration)
            ELSE Produced(Ok(Some(new_accepted(starting_cursor, Get(r.value)))),
                          [configuration EXCEPT !.current = r.value])
    IN  IF configuration.data_finality = "Finalized"
           \/ configuration.data_finality = "Unknown"
        THEN Produced(Ok(None), configuration)
        ELSE Match(canonical_block_id(s, next_block_number))

\* A pending path that does not record that the pending block was sent.
next_cursor_pending_resent(configuration, starting_cursor, next_block_number, s) ==
    LET Match(r) ==
            IF r.tag = "Err" THEN Produced(r, configuration)
            ELSE IF r.value = None THEN Produced(Ok(None), configuration)
            ELSE Produced(Ok(Some(new_pending(starting_cursor, Get(r.value)))),
                          configuration)
    IN  IF configuration.data_finality # "Pending" \/ configuration.pending_sent
        THEN Produced(Ok(None), configuration)
        ELSE Match(canonical_block_id(s, next_block_number))

\* A pending path that forgets where the stream is.
next_cursor_pending_rewinding(configuration, starting_cursor, next_block_number, s) ==
    LET Match(r) ==
            IF r.tag = "Err" THEN Produced(r, configuration)
            ELSE IF r.value = None THEN Produced(Ok(None), configuration)
            ELSE Produced(Ok(Some(new_pending(starting_cursor, Get(r.value)))),
                          [configuration EXCEPT !.pending_sent = TRUE,
                                                !.current = None])
    IN  IF configuration.data_finality # "Pending" \/ configuration.pending_sent
        THEN Produced(Ok(None), configuration)
        ELSE Match(canonical_block_id(s, next_block_number))

\* A pending path that advances current as the accepted path does.
next_cursor_pending_advancing(configuration, starting_cursor, next_block_number, s) ==
    LET Match(r) ==
            IF r.tag = "Err" THEN Produced(r, configuration)
            ELSE IF r.value = None THEN Produced(Ok(None), configuration)
            ELSE Produced(Ok(Some(new_pending(starting_cursor, Get(r.value)))),
                          [configuration EXCEPT !.pending_sent = TRUE,
                                                !.current = r.value])
    IN  IF configuration.data_finality # "Pending" \/ configuration.pending_sent
        THEN Produced(Ok(None), configuration)
        ELSE Match(canonical_block_id(s, next_block_number))

\* A pending path that looks up the block after the next one.
next_cursor_pending_ahead(configuration, starting_cursor, next_block_number, s) ==
    LET Match(r) ==
            IF r.tag = "Err" THEN Produced(r, configuration)
            ELSE IF r.value = None THEN Produced(Ok(None), configuration)
            ELSE Produced(Ok(Some(new_pending(starting_cursor, Get(r.value)))),
                          [configuration EXCEPT !.pending_sent = TRUE])
    IN  IF configuration.data_finality # "Pending" \/ configuration.pending_sent
        THEN Produced(Ok(None), configuration)
        ELSE Match(canonical_block_id(s, next_block_number + 1))

next_cursor_pending(configuration, starting_cursor, next_block_number, s) ==
    LET Match(r) ==
            IF r.tag = "Err" THEN Produced(r, configuration)
            ELSE IF r.value = None THEN Produced(Ok(None), configuration)
            ELSE Produced(Ok(Some(new_pending(starting_cursor, Get(r.value)))),
                          [configuration EXCEPT !.pending_sent = TRUE])
    IN  IF configuration.data_finality # "Pending" \/ configuration.pending_sent
        THEN Produced(Ok(None), configuration)
        ELSE Match(canonical_block_id(s, next_block_number))

\* A next block that is the current one.
next_block_number_of_current(current) ==
    IF IsSome(current) THEN Get(current).number ELSE 0

\* configuration.current.map(|c| c.number() + 1).unwrap_or(0)
next_block_number_of(current) ==
    IF IsSome(current) THEN Get(current).number + 1 ELSE 0

\* A choice of path that looks at the accepted tip before the finalized one.
next_cursor_from_accepted_first(state, configuration, next_block_number, s) ==
    IF IsSome(state.accepted) /\ next_block_number <= Get(state.accepted).number
    THEN next_cursor_accepted(configuration, configuration.current,
                              next_block_number, s)
    ELSE IF IsSome(state.finalized) /\ next_block_number <= Get(state.finalized).number
    THEN next_cursor_finalized(configuration, configuration.current,
                               next_block_number, Get(state.finalized), s)
    ELSE IF IsSome(state.pending) /\ next_block_number <= Get(state.pending).number
    THEN next_cursor_pending(configuration, configuration.current,
                             next_block_number, s)
    ELSE Produced(Ok(None), configuration)

\* The body of next_cursor_with_configuration once the ingestion state is
\* at hand: the first tip at or above next_block_number decides the path.
next_cursor_from(state, configuration, next_block_number, s) ==
    IF IsSome(state.finalized) /\ next_block_number <= Get(state.finalized).number
    THEN next_cursor_finalized(configuration, configuration.current,
                               next_block_number, Get(state.finalized), s)
    ELSE IF IsSome(state.accepted) /\ next_block_number <= Get(state.accepted).number
    THEN next_cursor_accepted(configuration, configuration.current,
                              next_block_number, s)
    ELSE IF IsSome(state.pending) /\ next_block_number <= Get(state.pending).number
    THEN next_cursor_pending(configuration, configuration.current,
                             next_block_number, s)
    ELSE Produced(Ok(None), configuration)

\* Returns the Result and the producer after the call.
next_cursor_with_configuration(p, s) ==
    LET Made(state, made) ==
            [res |-> made.res,
             producer |-> [p EXCEPT !.ingestion_state = state,
                                    !.configuration = Some(made.configuration)]]
        With(st) ==
            IF st.tag = "Err" THEN [res |-> st, producer |-> p]
            ELSE Made(st.value,
                      next_cursor_from(Get(st.value), Get(p.configuration),
                          next_block_number_of(Get(p.configuration).current), s))
    IN  With(get_ingestion_state_mut(p, s))

\* A producer that, not configured, produces as a stream of Accepted
\* finality from block 0 would.
next_cursor_unconfigured(p, s) ==
    LET Kept(r) == [res |-> r.res, producer |-> p]
    IN  IF IsSome(p.configuration) THEN next_cursor_with_configuration(p, s)
        ELSE Kept(next_cursor_with_configuration(
                      [p EXCEPT !.configuration =
                           Some(BatchConfiguration(None, FALSE, "Accepted", 1))], s))

next_cursor(p, s) ==
    IF IsSome(p.configuration) THEN next_cursor_with_configuration(p, s)
    ELSE [res |-> Ok(None), producer |-> p]

\* A poll that waits where storage fails.
poll_next_swallowing(p, s) ==
    LET Match(r) ==
            CASE r.res.tag = "Panic" ->
                    [poll |-> "Panic", item |-> r.res, producer |-> r.producer]
              [] r.res.tag = "Err" \/ (r.res.tag = "Ok" /\ r.res.value = None) ->
                    [poll |-> "Pending", item |-> Ok(None),
                     producer |-> [r.producer EXCEPT !.waker = TRUE]]
              [] OTHER ->
                    [poll |-> "Ready", item |-> Ok(Get(r.res.value)),
                     producer |-> r.producer]
    IN  Match(next_cursor(p, s))

\* Stream::poll_next.  poll is "Ready" with an item, "Pending" (the waker is
\* stored), or "Panic".
poll_next(p, s) ==
    LET Match(r) ==
            CASE r.res.tag = "Panic" ->
                    [poll |-> "Panic", item |-> r.res, producer |-> r.producer]
              [] r.res.tag = "Err" ->
                    [poll |-> "Ready", item |-> Err("Internal"), producer |-> r.producer]
              [] r.res.tag = "Ok" /\ r.res.value = None ->
                    [poll |-> "Pending", item |-> r.res,
                     producer |-> [r.producer EXCEPT !.waker = TRUE]]
              [] OTHER ->
                    [poll |-> "Ready", item |-> Ok(Get(r.res.value)),
                     producer |-> r.producer]
    IN  Match(next_cursor(p, s))

\* A wake that leaves the waker where it is.
wake_nothing(p) == [producer |-> p, woke |-> FALSE]

\* wake: takes the stored waker and wakes it.
wake(p) == [producer |-> [p EXCEPT !.waker = FALSE], woke |-> p.waker]

\* A minimum over the block number that keeps the hash of its first argument.
lowest_cursor_own_hash(a, b) == Cursor(Min(a.number, b.number), a.hash)

lowest_cursor(a, b) == IF a.number < b.number THEN a ELSE b

\* A map that leaves the cursor as it is.
map_lowest_kept(o, cursor) == o

\* Option::map(|c| lowest_cursor(c, cursor))
map_lowest(o, cursor) == IF IsSome(o) THEN Some(lowest_cursor(Get(o), cursor)) ELSE None

\* The comparison of is_invalidated the wrong way round.
is_invalidated_reversed(current, cursor) ==
    IF IsSome(current) THEN Get(current).number < cursor.number ELSE FALSE

\* The comparison of is_invalidated with >= for >.
is_invalidated_inclusive(current, cursor) ==
    IF IsSome(current) THEN Get(current).number >= cursor.number ELSE FALSE

\* configuration.current.map(|c| c.number() > cursor.number()).unwrap_or(false)
is_invalidated(current, cursor) ==
    IF IsSome(current) THEN Get(current).number > cursor.number ELSE FALSE

RespOk == [kind |-> "Ok", cursor |-> None]
RespInvalidate(c) == [kind |-> "Invalidate", cursor |-> Some(c)]
RespMissingStartingCursor == [kind |-> "MissingStartingCursor", cursor |-> None]

IngestionMessage(kind, c) == [kind |-> kind, cursor |-> c]

\* A match whose Accepted and Finalized arms mark pending as ready to send,
\* as the Pending arm does.
apply_ingestion_message_resending(state, cfg, message) ==
    LET cursor == message.cursor
        Ready == IF IsSome(cfg) THEN Some([Get(cfg) EXCEPT !.pending_sent = FALSE])
                 ELSE cfg
    IN  CASE message.kind = "Pending" ->
                [state |-> [state EXCEPT !.pending = Some(cursor)],
                 configuration |-> Ready,
                 response |-> RespOk]
          [] message.kind = "Accepted" ->
                [state |-> [state EXCEPT !.finalized = None, !.accepted = Some(cursor)],
                 configuration |-> Ready,
                 response |-> RespOk]
          [] message.kind = "Finalized" ->
                [state |-> [state EXCEPT !.finalized = Some(cursor)],
                 configuration |-> Ready,
                 response |-> RespOk]
          [] OTHER ->
                [state |-> [state EXCEPT !.pending = None,
                                         !.accepted = map_lowest(state.accepted, cursor),
                                         !.finalized = map_lowest(state.finalized, cursor)],
                 configuration |->
                    IF IsSome(cfg)
                    THEN Some([Get(cfg) EXCEPT
                                  !.current = map_lowest(Get(cfg).current, cursor)])
                    ELSE cfg,
                 response |->
                    IF IsSome(cfg) /\ is_invalidated(Get(cfg).current, cursor)
                    THEN RespInvalidate(cursor) ELSE RespOk]

\* A match whose Accepted arm keeps the finalized tip.
apply_ingestion_message_keeping_finalized(state, cfg, message) ==
    LET cursor == message.cursor
    IN  CASE message.kind = "Pending" ->
                [state |-> [state EXCEPT !.pending = Some(cursor)],
                 configuration |->
                    IF IsSome(cfg) THEN Some([Get(cfg) EXCEPT !.pending_sent = FALSE])
                    ELSE cfg,
                 response |-> RespOk]
          [] message.kind = "Accepted" ->
                [state |-> [state EXCEPT !.accepted = Some(cursor)],
                 configuration |-> cfg,
                 response |-> RespOk]
          [] message.kind = "Finalized" ->
                [state |-> [state EXCEPT !.finalized = Some(cursor)],
                 configuration |-> cfg,
                 response |-> RespOk]
          [] OTHER ->
                [state |-> [state EXCEPT !.pending = None,
                                         !.accepted = map_lowest(state.accepted, cursor),
                                         !.finalized = map_lowest(state.finalized, cursor)],
                 configuration |->
                    IF IsSome(cfg)
                    THEN Some([Get(cfg) EXCEPT
                                  !.current = map_lowest(Get(cfg).current, cursor)])
                    ELSE cfg,
                 response |->
                    IF IsSome(cfg) /\ is_invalidated(Get(cfg).current, cursor)
                    THEN RespInvalidate(cursor) ELSE RespOk]

\* The match of handle_ingestion_message on an initialised state: the state
\* and configuration after it, and the response.
apply_ingestion_message(state, cfg, message) ==
    LET cursor == message.cursor
    IN  CASE message.kind = "Pending" ->
                [state |-> [state EXCEPT !.pending = Some(cursor)],
                 configuration |->
                    IF IsSome(cfg) THEN Some([Get(cfg) EXCEPT !.pending_sent = FALSE])
                    ELSE cfg,
                 response |-> RespOk]
          [] message.kind = "Accepted" ->
                [state |-> [state EXCEPT !.finalized = None, !.accepted = Some(cursor)],
                 configuration |-> cfg,
                 response |-> RespOk]
          [] message.kind = "Finalized" ->
                [state |-> [state EXCEPT !.finalized = Some(cursor)],
                 configuration |-> cfg,
                 response |-> RespOk]
          [] OTHER ->
                [state |-> [state EXCEPT !.pending = None,
                                         !.accepted = map_lowest(state.accepted, cursor),
                                         !.finalized = map_lowest(state.finalized, cursor)],
                 configuration |->
                    IF IsSome(cfg)
                    THEN Some([Get(cfg) EXCEPT
                                  !.current = map_lowest(Get(cfg).current, cursor)])
                    ELSE cfg,
                 response |->
                    IF IsSome(cfg) /\ is_invalidated(Get(cfg).current, cursor)
                    THEN RespInvalidate(cursor) ELSE RespOk]

handle_ingestion_message(p, message, s) ==
    LET Woken(response, q) ==
            Outcome(Ok(response), wake(q).producer, wake(q).woke)
        Applied(a) ==
            Woken(a.response, [p EXCEPT !.ingestion_state = Some(a.state),
                                        !.configuration = a.configuration])
        With(st) ==
            IF st.tag = "Err" THEN Outcome(Err("Internal"), p, FALSE)
            ELSE Applied(apply_ingestion_message(Get(st.value), p.configuration, message))
    IN  With(get_ingestion_state_mut(p, s))

(***************************************************************************)
(* reconfigure.  A StreamConfiguration is a record [stream_id,             *)
(* starting_cursor, finality, batch_size]; the filter is read by the batch *)
(* producer only.                                                          *)
(***************************************************************************)
StreamConfiguration(stream_id, starting_cursor, finality, batch_size) ==
    [stream_id |-> stream_id, starting_cursor |-> starting_cursor,
     finality |-> finality, batch_size |-> batch_size]

\* A hash that is never taken for the zero hash.
is_zero_never(hash) == FALSE

is_zero(hash) == hash = 0

\* GlobalBlockId::from_block_header_parent
from_block_header_parent(s, parent) ==
    IF s.fail = "from_block_header_parent" THEN Err("Internal") ELSE Ok(parent)

\* A walk that never leaves the cursor it starts from.
walk_back_in_place(s, new_root, fuel) ==
    LET Status(status) ==
            IF status.tag = "Err" THEN status
            ELSE IF status.value = None THEN Ok(None)
            ELSE IF is_accepted(Get(status.value)) \/ is_finalized(Get(status.value))
            THEN Ok(Some(new_root))
            ELSE [tag |-> "Diverge", value |-> None]
    IN  Status(read_status(s, new_root))

\* A walk that stops where it starts.
walk_back_nowhere(s, new_root, fuel) == Ok(Some(new_root))

\* The loop of reconfigure that walks back from a cursor that is not part of
\* the canonical chain.  One snapshot of storage is read throughout, so a
\* walk of more steps than there are cursors has come back to a cursor it
\* visited and never returns: "Diverge".
RECURSIVE walk_back(_, _, _)
walk_back(s, new_root, fuel) ==
    LET Parent(parent) ==
            IF parent.tag = "Err" THEN parent
            ELSE walk_back(s, parent.value, fuel - 1)
        Header(header) ==
            IF header.tag = "Err" THEN header
            ELSE IF header.value = None THEN Ok(None)
            ELSE Parent(from_block_header_parent(s, Get(header.value)))
        Status(status) ==
            IF status.tag = "Err" THEN status
            ELSE IF status.value = None THEN Ok(None)
            ELSE IF is_accepted(Get(status.value)) \/ is_finalized(Get(status.value))
            THEN Ok(Some(new_root))
            ELSE Header(read_header(s, new_root))
    IN  IF fuel = 0 THEN [tag |-> "Diverge", value |-> None]
        ELSE Status(read_status(s, new_root))

\* The match on configuration.starting_cursor: Ok of [current, response],
\* Ok(None)-like MissingStartingCursor, an error, or "Diverge".
Resolved(current, response) == Ok([current |-> current, response |-> response])
Missing == Ok([current |-> None, response |-> RespMissingStartingCursor])

resolve_starting_cursor(configuration, s) ==
    LET Walked(walk) ==
            IF walk.tag # "Ok" THEN walk
            ELSE IF walk.value = None THEN Missing
            ELSE Resolved(walk.value, RespInvalidate(Get(walk.value)))
        Status(starting_cursor, starting_status) ==
            IF starting_status.tag = "Err" THEN starting_status
            ELSE IF starting_status.value = None THEN Missing
            ELSE IF is_accepted(Get(starting_status.value))
                    \/ is_finalized(Get(starting_status.value))
            THEN Resolved(Some(starting_cursor), RespOk)
            ELSE Walked(walk_back(s, starting_cursor, Cardinality(Cursors) + 1))
        From(starting_cursor) ==
            Status(starting_cursor, read_status(s, starting_cursor))
        Canonical(canon) ==
            IF canon.tag = "Err" THEN canon
            ELSE IF canon.value = None THEN Missing
            ELSE From(Get(canon.value))
        Given(given) ==
            IF is_zero(given.hash) THEN Canonical(canonical_block_id(s, given.number))
            ELSE From(given)
    IN  IF configuration.starting_cursor = None THEN Resolved(None, RespOk)
        ELSE Given(Get(configuration.starting_cursor))

\* A reconfigure that stores the configuration, current not yet resolved,
\* before it reads storage.
reconfigure_storing_first(p, configuration, s) ==
    LET Woken(response, q) ==
            Outcome(Ok(response), wake(q).producer, wake(q).woke)
        Storing(current) ==
            [p EXCEPT !.configuration =
                 Some(BatchConfiguration(current, FALSE,
                          configuration.finality, configuration.batch_size))]
        Configure(r) ==
            IF r.tag # "Ok" THEN Outcome(r, Storing(None), FALSE)
            ELSE IF r.value.response.kind = "MissingStartingCursor"
            THEN Outcome(Ok(r.value.response), Storing(None), FALSE)
            ELSE Woken(r.value.response, Storing(r.value.current))
    IN  Configure(resolve_starting_cursor(configuration, s))

reconfigure(p, configuration, s) ==
    LET Woken(response, q) ==
            Outcome(Ok(response), wake(q).producer, wake(q).woke)
        Configure(r) ==
            IF r.tag # "Ok" THEN Outcome(r, p, FALSE)
            ELSE IF r.value.response.kind = "MissingStartingCursor"
            THEN Outcome(Ok(r.value.response), p, FALSE)
            ELSE Woken(r.value.response,
                       [p EXCEPT !.configuration =
                            Some(BatchConfiguration(r.value.current, FALSE,
                                     configuration.finality, configuration.batch_size))])
    IN  Configure(resolve_starting_cursor(configuration, s))

(***************************************************************************)
(* The stream driver, new_data_stream.                                     *)
(***************************************************************************)

BatchSizes == 0..MaxBatch

\* A select that polls the ingestion stream first.
select_ingestion_first(configuration_is_ready, ingestion_is_ready) ==
    IF ingestion_is_ready THEN "ingestion"
    ELSE IF configuration_is_ready THEN "configuration"
    ELSE "batch_cursor"

\* A select that never polls the cursor producer.
select_without_batch_cursor(configuration_is_ready, ingestion_is_ready) ==
    IF configuration_is_ready THEN "configuration" ELSE "ingestion"

\* tokio::select! with `biased;`: the branches are polled in the order they
\* are written and the first ready one runs.  The cursor producer is polled
\* only when neither input stream has an item ready.
select(configuration_is_ready, ingestion_is_ready) ==
    IF configuration_is_ready THEN "configuration"
    ELSE IF ingestion_is_ready THEN "ingestion"
    ELSE "batch_cursor"

\* One poll of the future select_next_some() makes of a fused stream: the
\* next item if one is ready; Pending if none is; at the end of the stream
\* Pending as well, after waking the task; a panic once the stream is
\* terminated.
select_next_some(stream, is_ready) ==
    CASE stream = "terminated" -> [poll |-> "Panic", stream |-> stream, woke |-> FALSE]
      [] is_ready -> [poll |-> "Ready", stream |-> stream, woke |-> FALSE]
      [] stream = "exhausted" ->
            [poll |-> "Pending", stream |-> "terminated", woke |-> TRUE]
      [] OTHER -> [poll |-> "Pending", stream |-> stream, woke |-> FALSE]

\* handle_configuration_message: the item of the configuration stream, the
\* cursor producer's reconfigure, then the batch producer's.
\* An Ok result carries the stream_id of the message with the response.
handle_configuration_message(p, item, s, batch_producer_fails) ==
    LET Reconfigured(r) ==
            IF r.res.tag # "Ok" THEN r
            ELSE IF batch_producer_fails
            THEN Outcome(Err("Internal"), r.producer, r.woke)
            ELSE Outcome(Ok([stream_id |-> item.value.stream_id,
                             kind |-> r.res.value.kind,
                             cursor |-> r.res.value.cursor]),
                         r.producer, r.woke)
    IN  IF item.tag = "Err" THEN Outcome(item, p, FALSE)
        ELSE Reconfigured(reconfigure(p, item.value, s))

\* handle_ingestion_message of data.rs.
driver_handle_ingestion_message(p, item, s) ==
    IF item.tag = "Err" THEN Outcome(item, p, FALSE)
    ELSE handle_ingestion_message(p, item.value, s)

\* The items of the output stream.
NoItem == [type |-> "None"]
ErrorItem(e) == [type |-> "Err", error |-> e]
InvalidateItem(c) == [type |-> "Invalidate", cursor |-> c]
\* A Data message whose cursor is the first block of the batch.
DataItemFromFirst(batch) ==
    [type |-> "Data", cursor |-> Some(batch.cursors[1]),
     end_cursor |-> Some(end_cursor(batch)),
     finality |-> batch.kind, data |-> batch.cursors]

DataItem(batch) ==
    [type |-> "Data", cursor |-> batch.start, end_cursor |-> Some(end_cursor(batch)),
     finality |-> batch.kind, data |-> batch.cursors]

\* A StreamDataResponse: a Data or Invalidate message under a stream_id.
StreamDataResponse(stream_id, message) ==
    CASE message.type = "Data" ->
            [type |-> "Data", stream_id |-> stream_id, cursor |-> message.cursor,
             end_cursor |-> message.end_cursor, finality |-> message.finality,
             data |-> message.data]
      [] message.type = "Invalidate" ->
            [type |-> "Invalidate", stream_id |-> stream_id, cursor |-> message.cursor]
      [] OTHER -> message

\* handle_batch_cursor: next_batch returns one block per cursor, or fails.
handle_batch_cursor(item, next_batch_fails) ==
    IF item.tag = "Err" THEN item
    ELSE IF next_batch_fails THEN Err("Internal")
    ELSE Ok(DataItem(item.value))

VARIABLES
    producer,              \* the SequentialCursorProducer
    driver,                \* "running", "ended", "panicked" or "hung"
    stream_id,             \* the stream_id the driver stamps its messages with
    configuration_stream,  \* the fused configuration stream: "open", "exhausted"
                           \* (its end is next) or "terminated" (its end was returned)
    ingestion_stream,      \* the fused ingestion stream, likewise
    configuration_ready,   \* the configuration stream has an item ready
    ingestion_ready,       \* the ingestion stream has an item ready
    parked,                \* the task waits to be woken
    out,                   \* the item the last step yielded, NoItem if none
    sel,                   \* the branch the last step ran and what was ready
    at,                    \* for a Data item: what preceded it
    seen                   \* what has been observed of the stream so far

vars == <<producer, driver, stream_id, configuration_stream, ingestion_stream,
          configuration_ready, ingestion_ready, parked, out, sel, at, seen>>

(***************************************************************************)
(* What the environment may hand to one step of the driver.                *)
(***************************************************************************)
ChainHashes == {1}
Heights == 0..(MaxBlock + 1)

Healthy(chain, known, acc, l1, fork, headers) ==
    Snapshot(chain, known, acc, l1, fork, headers, "none", FALSE)

\* Storage whose canonical chain holds every block; no call fails.
FullStorage == Healthy(1, MaxBlock + 1, MaxBlock + 1, 1, MaxBlock + 1, TRUE)

Failing(call) == [FullStorage EXCEPT !.fail = call]

StartingCursors == {None} \cup {Some(c) : c \in Cursors \cup Hints}

\* The stream ids of the configurations: one id for every configuration,
\* or a new id with each.
OneStreamId == {1}
StreamIds == {1, 2}

Configurations ==
    {StreamConfiguration(id, sc, f, b) : id \in OneStreamId,
        sc \in StartingCursors, f \in Finalities, b \in BatchSizes}

\* Storage as reconfigure reads it: every canonical block known and a fork
\* above each height; the canonical chain known only in part; nothing
\* known; the headers missing.  Without a starting cursor storage is not
\* read.
ReconfigureStorages(configuration) ==
    IF configuration.starting_cursor = None THEN {FullStorage}
    ELSE {Healthy(chain, MaxBlock + 1, MaxBlock + 1, 1, fork, TRUE) :
             chain \in ChainHashes, fork \in 1..MaxBlock}
         \cup {Healthy(chain, 1, 1, 1, fork, TRUE) :
                  chain \in ChainHashes, fork \in {MaxBlock, MaxBlock + 1}}
         \cup {Healthy(chain, 0, 0, 0, MaxBlock + 1, FALSE) : chain \in ChainHashes}
         \cup {Healthy(chain, MaxBlock + 1, MaxBlock + 1, 1, 1, FALSE) :
                  chain \in ChainHashes}

\* A fault is injected with every starting cursor; the finality and the
\* batch size of the configuration play no part in it.
FaultyConfigurations ==
    {StreamConfiguration(id, sc, "Accepted", 1) :
        id \in OneStreamId, sc \in StartingCursors}

Input(item, s, fails) == [item |-> item, s |-> s, fails |-> fails]

ConfigurationInputs ==
    UNION {{Input(Ok(c), s, FALSE) : s \in ReconfigureStorages(c)} :
                  c \in Configurations}
    \cup {Input(Err("Internal"), FullStorage, FALSE)}
    \cup {Input(Ok(c), FullStorage, TRUE) : c \in FaultyConfigurations}
    \cup {Input(Ok(c), Failing(call), FALSE) :
             c \in FaultyConfigurations,
             call \in {"canonical_block_id", "read_status"}}
    \cup {Input(Ok(c), [Healthy(1, MaxBlock + 1, MaxBlock + 1, 1, 1, TRUE)
                           EXCEPT !.fail = call], FALSE) :
             c \in FaultyConfigurations,
             call \in {"read_header", "from_block_header_parent"}}

IngestionMessages ==
    {IngestionMessage(k, c) :
        k \in {"Pending", "Accepted", "Finalized", "Invalidate"},
        c \in {Cursor(n, 1) : n \in Numbers}}

IngestionInputsWith(tips) ==
    {Input(Ok(m), Healthy(chain, MaxBlock + 1, t[1], t[2], MaxBlock + 1, TRUE), FALSE) :
        m \in IngestionMessages, chain \in ChainHashes, t \in tips}
    \cup {Input(Err("Internal"), FullStorage, FALSE)}
    \cup {Input(Ok(m), Failing(call), FALSE) :
             m \in IngestionMessages,
             call \in {"highest_accepted_block", "highest_finalized_block"}}

\* A poll reads the canonical ids below some height, and the tips when no
\* state is cached; either build profile may run it.
PollInputsWith(tips) ==
    {Input(Ok(0),
           [Healthy(chain, known, t[1], t[2], MaxBlock + 1, TRUE)
               EXCEPT !.overflow_checks = oc],
           fails) :
        chain \in ChainHashes, known \in Heights, t \in tips,
        oc \in BOOLEAN, fails \in BOOLEAN}
    \cup {Input(Ok(0), Failing(call), FALSE) :
             call \in {"canonical_block_id", "highest_accepted_block",
                       "highest_finalized_block"}}

\* The tips are read from storage only by a producer that has no cached
\* ingestion state.
LoadedTips == {t \in Heights \X Heights : t[2] <= t[1]}
IngestionInputsCold == IngestionInputsWith(LoadedTips)
IngestionInputsWarm == IngestionInputsWith({<<0, 0>>})
IngestionInputs(p) ==
    IF IsSome(p.ingestion_state) THEN IngestionInputsWarm ELSE IngestionInputsCold
PollInputsCold == PollInputsWith(LoadedTips)
PollInputsWarm == PollInputsWith({<<0, 0>>})
PollInputs(p) ==
    IF IsSome(p.ingestion_state) THEN PollInputsWarm ELSE PollInputsCold

(***************************************************************************)
(* The observer.  It changes nothing of the program: it records, for the   *)
(* properties below, what a client reading the output stream and a probe   *)
(* on the select have seen.                                                *)
(***************************************************************************)
NoSelect == [branch |-> "none", configuration_ready |-> FALSE, ingestion_ready |-> FALSE]
Selected(branch) ==
    [branch |-> branch, configuration_ready |-> configuration_ready,
     ingestion_ready |-> ingestion_ready]

\* What the last step started from.
NoContext ==
    [configured |-> FALSE,          \* a configuration was stored before the step
     current |-> None,              \* its current before the step
     message |-> None,              \* the ingestion message the step handled
     previous_end |-> None,         \* for a Data item: see last_data_end
     configured_between |-> FALSE,  \*                  see configured_since
     after_pending |-> None,        \*                  see pending_block
     last_invalidate |-> None,      \*                  see last_invalidate
     max_invalidated |-> None,      \*                  see max_invalidated
     last_batch_end |-> None,       \*                  see last_batch_end
     stream_id |-> 0,               \* for a configuration: the driver's stream_id
                                    \* before the step
     storage_failed |-> FALSE,      \* for a poll: a call of storage it made failed
     waker |-> FALSE]               \* for a handler: a waker was stored before the step

\* What has been seen of the output stream so far.
Nothing ==
    [max_invalidated |-> None,      \* highest number of an Invalidate yielded
     last_invalidate |-> None,      \* number of the last Invalidate yielded, if
                                    \* no configuration was stored since
     last_data_end |-> None,        \* end number of the last item, if a Data
     last_batch_end |-> None,       \* end number of the last Finalized or Accepted
                                    \* batch, if no configuration was stored and no
                                    \* Invalidate yielded since
     configured_since |-> FALSE,    \* a configuration was stored since the last item
     pending_since_ingestion |-> 0, \* Pending batches since the last ingestion event
     pending_since_event |-> 0,     \* ... since the last ingestion event or
                                    \* stored configuration
     pending_block |-> None,        \* number of the last Pending batch, if no
                                    \* Invalidate, stored configuration or other
                                    \* batch came since
     errors |-> 0,                  \* error items yielded
     invalid_requests |-> 0,        \* InvalidRequest errors among them
     after_error |-> 0,             \* items yielded after the first error
     stream_id |-> None]            \* stream_id of the last configuration message
                                    \* the handler returned Ok for

Max(a, b) == IF a > b THEN a ELSE b
MaxOpt(o, n) == IF IsSome(o) THEN Some(Max(Get(o), n)) ELSE Some(n)
CurrentOf(p) == IF IsSome(p.configuration) THEN Get(p.configuration).current ELSE None

AfterConfiguration(o) ==
    [o EXCEPT !.configured_since = TRUE, !.last_invalidate = None,
              !.last_batch_end = None,
              !.pending_since_event = 0, !.pending_block = None]

AfterIngestion(o) ==
    [o EXCEPT !.pending_since_ingestion = 0, !.pending_since_event = 0]

Yielded(o, item) ==
    LET Counted(q) ==
            [q EXCEPT !.after_error = IF o.errors > 0 THEN 1 ELSE @]
    IN  CASE item.type = "None" -> o
          [] item.type = "Err" ->
                Counted([o EXCEPT !.errors = Min(@ + 1, 2),
                                  !.invalid_requests =
                                      IF item.error = "InvalidRequest"
                                      THEN Min(@ + 1, 2) ELSE @,
                                  !.last_data_end = None,
                                  !.configured_since = FALSE])
          [] item.type = "Invalidate" ->
                Counted([o EXCEPT !.max_invalidated = MaxOpt(@, item.cursor.number),
                                  !.last_invalidate = Some(item.cursor.number),
                                  !.last_data_end = None,
                                  !.last_batch_end = None,
                                  !.configured_since = FALSE,
                                  !.pending_block = None])
          [] OTHER ->
                Counted([o EXCEPT !.last_data_end = Some(Get(item.end_cursor).number),
                                  !.last_batch_end =
                                      IF item.finality = "Pending" THEN @
                                      ELSE Some(Get(item.end_cursor).number),
                                  !.configured_since = FALSE,
                                  !.pending_since_ingestion =
                                      IF item.finality = "Pending"
                                      THEN Min(@ + 1, 2) ELSE @,
                                  !.pending_since_event =
                                      IF item.finality = "Pending"
                                      THEN Min(@ + 1, 2) ELSE @,
                                  !.pending_block =
                                      IF item.finality = "Pending"
                                      THEN Some(Get(item.end_cursor).number)
                                      ELSE None])

\* The handler returned Ok for a configuration message of this stream_id.
Succeeded(o, res, id) == IF res.tag = "Ok" THEN [o EXCEPT !.stream_id = id] ELSE o

IngestionContext(p, item) ==
    [NoContext EXCEPT !.configured = IsSome(p.configuration),
                      !.current = CurrentOf(p),
                      !.message = IF item.tag = "Ok" THEN Some(item.value) ELSE None,
                      !.waker = p.waker]

PollContext(o, p, item) ==
    IF item.type # "Data"
    THEN [NoContext EXCEPT !.configured = IsSome(p.configuration),
                           !.current = CurrentOf(p)]
    ELSE [NoContext EXCEPT !.configured = IsSome(p.configuration),
                           !.current = CurrentOf(p),
                           !.previous_end = o.last_data_end,
                           !.last_batch_end = o.last_batch_end,
                           !.configured_between = o.configured_since,
                           !.after_pending = o.pending_block,
                           !.last_invalidate = o.last_invalidate,
                           !.max_invalidated = o.max_invalidated]

\* A poll of producer p on storage s makes a call of storage that fails:
\* it loads the ingestion state, p having none, and a read of a tip fails;
\* or it takes a path that looks up the canonical block at N, and that
\* lookup fails.
LooksUp(configuration, state, n) ==
    IF IsSome(state.finalized) /\ n <= Get(state.finalized).number
    THEN n <= Min(Get(state.finalized).number, n + configuration.batch_size - 1)
    ELSE IF IsSome(state.accepted) /\ n <= Get(state.accepted).number
    THEN configuration.data_finality \in {"Accepted", "Pending"}
    ELSE IF IsSome(state.pending) /\ n <= Get(state.pending).number
    THEN configuration.data_finality = "Pending" /\ ~configuration.pending_sent
    ELSE FALSE

StorageFails(p, s) ==
    /\ IsSome(p.configuration)
    /\ IF p.ingestion_state = None
       THEN s.fail \in {"highest_accepted_block", "highest_finalized_block"}
       ELSE /\ s.fail = "canonical_block_id"
            /\ LooksUp(Get(p.configuration), Get(p.ingestion_state),
                       next_block_number_of(Get(p.configuration).current))

(***************************************************************************)
(* The specification.                                                      *)
(***************************************************************************)
Init ==
    /\ producer = Producer(None, None, FALSE)
    /\ driver = "running"
    /\ stream_id = 0
    /\ configuration_stream = "open"
    /\ ingestion_stream = "open"
    /\ configuration_ready = FALSE
    /\ ingestion_ready = FALSE
    /\ parked = FALSE
    /\ out = NoItem
    /\ sel = NoSelect
    /\ at = NoContext
    /\ seen = Nothing

\* A loop that goes on after yielding an error.
on_error_continue == "running"
\* A loop that goes on after the InvalidRequest of a missing starting cursor.
on_missing_starting_cursor_continue == "running"

\* `break` after yielding an error: the stream ends.
on_error == "ended"
\* `break` after yielding the InvalidRequest of a missing starting cursor.
on_missing_starting_cursor == "ended"

\* A driver that keeps the stream_id it has.
configuration_stream_id_kept(id, res) == id

\* `stream_id = new_stream_id` of the Ok arm of the configuration branch.
configuration_stream_id(id, res) ==
    IF res.tag = "Ok" THEN res.value.stream_id ELSE id

\* What the configuration branch yields for the outcome of the handler.
configuration_item(res) ==
    CASE res.tag = "Err" -> ErrorItem(res.value)
      [] res.tag = "Ok" /\ res.value.kind = "MissingStartingCursor" ->
            ErrorItem("InvalidRequest")
      [] res.tag = "Ok" /\ res.value.kind = "Invalidate" ->
            InvalidateItem(Get(res.value.cursor))
      [] OTHER -> NoItem

configuration_next(res) ==
    CASE res.tag = "Err" -> on_error
      [] res.tag = "Diverge" -> "hung"
      [] res.tag = "Ok" /\ res.value.kind = "MissingStartingCursor" ->
            on_missing_starting_cursor
      [] OTHER -> "running"

\* What the ingestion branch yields.
ingestion_item(res) ==
    CASE res.tag = "Err" -> ErrorItem(res.value)
      [] res.tag = "Ok" /\ res.value.kind = "Invalidate" ->
            InvalidateItem(Get(res.value.cursor))
      [] OTHER -> NoItem

\* What the batch cursor branch yields: nothing unless the poll is Ready.
batch_item(r, next_batch_fails) ==
    LET Match(d) == IF d.tag = "Err" THEN ErrorItem(d.value) ELSE d.value
    IN  IF r.poll # "Ready" THEN NoItem
        ELSE Match(handle_batch_cursor(r.item, next_batch_fails))

\* An item becomes ready on the configuration stream; the task is woken.
ConfigurationArrives ==
    /\ configuration_stream = "open"
    /\ ~configuration_ready
    /\ configuration_ready' = TRUE
    /\ parked' = FALSE
    /\ out' = NoItem /\ sel' = NoSelect /\ at' = NoContext
    /\ UNCHANGED <<producer, driver, stream_id, configuration_stream, ingestion_stream,
                   ingestion_ready, seen>>

\* An item becomes ready on the ingestion stream; the task is woken.
IngestionArrives ==
    /\ ingestion_stream = "open"
    /\ ~ingestion_ready
    /\ ingestion_ready' = TRUE
    /\ parked' = FALSE
    /\ out' = NoItem /\ sel' = NoSelect /\ at' = NoContext
    /\ UNCHANGED <<producer, driver, stream_id, configuration_stream, ingestion_stream,
                   configuration_ready, seen>>

\* The outcome of the configuration handler with the stream_id of the
\* message it was given.
Handled(r, x) ==
    [outcome |-> r,
     stream_id |-> IF x.item.tag = "Ok" THEN Some(x.item.value.stream_id) ELSE None]

\* The configuration branch of the select.  The inputs that lead to the
\* same outcome are taken together.
Configure(inputs) ==
    /\ driver = "running" /\ ~parked
    /\ select(configuration_ready, ingestion_ready) = "configuration"
    /\ select_next_some(configuration_stream, configuration_ready).poll = "Ready"
    /\ \E y \in {Handled(handle_configuration_message(producer, x.item, x.s, x.fails), x) :
                     x \in inputs} :
        \E r \in {y.outcome} :
        \E id \in {configuration_stream_id(stream_id, r.res)} :
          LET item == StreamDataResponse(id, configuration_item(r.res))
              stored == r.producer.configuration # producer.configuration
                        \/ (r.res.tag = "Ok" /\ r.res.value.kind # "MissingStartingCursor")
          IN  /\ producer' = r.producer
              /\ driver' = configuration_next(r.res)
              /\ stream_id' = id
              /\ out' = item
              /\ seen' = Yielded(Succeeded(IF stored THEN AfterConfiguration(seen)
                                           ELSE seen, r.res, y.stream_id),
                                 item)
    /\ configuration_ready' = FALSE
    /\ sel' = Selected("configuration")
    /\ at' = [NoContext EXCEPT !.stream_id = stream_id, !.waker = producer.waker]
    /\ UNCHANGED <<configuration_stream, ingestion_stream, ingestion_ready, parked>>

HandleConfiguration == Configure(ConfigurationInputs)

\* The ingestion branch of the select.  The configuration stream was polled
\* before it.
Ingest(inputs) ==
    /\ driver = "running" /\ ~parked
    /\ select(configuration_ready, ingestion_ready) = "ingestion"
    /\ select_next_some(configuration_stream, configuration_ready).poll # "Panic"
    /\ select_next_some(ingestion_stream, ingestion_ready).poll = "Ready"
    /\ \E x \in inputs :
        \E r \in {driver_handle_ingestion_message(producer, x.item, x.s)} :
          LET item == StreamDataResponse(stream_id, ingestion_item(r.res))
          IN  /\ producer' = r.producer
              /\ driver' = IF r.res.tag = "Err" THEN on_error ELSE "running"
              /\ out' = item
              /\ at' = IngestionContext(producer, x.item)
              /\ seen' = Yielded(IF r.res.tag = "Ok" THEN AfterIngestion(seen) ELSE seen,
                                 item)
    /\ configuration_stream' =
           select_next_some(configuration_stream, configuration_ready).stream
    /\ ingestion_ready' = FALSE
    /\ sel' = Selected("ingestion")
    /\ UNCHANGED <<stream_id, ingestion_stream, configuration_ready, parked>>

HandleIngestion == Ingest(IngestionInputs(producer))

\* The batch cursor branch of the select: one poll of the cursor producer,
\* after a poll of each input stream.  A stream that returned its end has
\* woken the task: it does not wait.
Poll(inputs) ==
    /\ driver = "running" /\ ~parked
    /\ select(configuration_ready, ingestion_ready) = "batch_cursor"
    /\ select_next_some(configuration_stream, configuration_ready).poll # "Panic"
    /\ select_next_some(ingestion_stream, ingestion_ready).poll # "Panic"
    /\ \E x \in inputs :
        \E r \in {poll_next(producer, x.s)} :
        \E item \in {StreamDataResponse(stream_id, batch_item(r, x.fails))} :
              /\ producer' = r.producer
              /\ driver' = CASE r.poll = "Panic" -> "panicked"
                             [] item.type = "Err" -> on_error
                             [] OTHER -> "running"
              /\ parked' =
                     /\ r.poll = "Pending"
                     /\ ~select_next_some(configuration_stream, configuration_ready).woke
                     /\ ~select_next_some(ingestion_stream, ingestion_ready).woke
              /\ out' = item
              /\ at' = [PollContext(seen, producer, item) EXCEPT
                            !.storage_failed = StorageFails(producer, x.s)]
              /\ seen' = Yielded(seen, item)
    /\ configuration_stream' =
           select_next_some(configuration_stream, configuration_ready).stream
    /\ ingestion_stream' = select_next_some(ingestion_stream, ingestion_ready).stream
    /\ sel' = Selected("batch_cursor")
    /\ UNCHANGED <<stream_id, configuration_ready, ingestion_ready>>

PollBatchCursor == Poll(PollInputs(producer))

Next ==
    \/ ConfigurationArrives
    \/ IngestionArrives
    \/ HandleConfiguration
    \/ HandleIngestion
    \/ PollBatchCursor

Spec == Init /\ [][Next]_vars

(***************************************************************************)
(* A whole session of the driver: configurations that differ in their     *)
(* stream_id and in whether they succeed, and in nothing else but the      *)
(* starting cursor; input streams that come to their end.                  *)
(***************************************************************************)
StampedConfigurations ==
    {StreamConfiguration(id, sc, "Accepted", 1) :
        id \in StreamIds, sc \in {None, Some(Cursor(MaxBlock, 2))}}

StampedInputs ==
    UNION {{Input(Ok(c), s, fails) : s \in ReconfigureStorages(c), fails \in BOOLEAN} :
              c \in StampedConfigurations}
    \cup {Input(Err("Internal"), FullStorage, FALSE)}
    \cup {Input(Ok(c), Failing("read_status"), FALSE) : c \in StampedConfigurations}

HandleStampedConfiguration == Configure(StampedInputs)

\* The configuration stream has no more items: its next poll returns the
\* end of the stream.  The task is woken.
ConfigurationEnds ==
    /\ configuration_stream = "open"
    /\ ~configuration_ready
    /\ configuration_stream' = "exhausted"
    /\ parked' = FALSE
    /\ out' = NoItem /\ sel' = NoSelect /\ at' = NoContext
    /\ UNCHANGED <<producer, driver, stream_id, ingestion_stream,
                   configuration_ready, ingestion_ready, seen>>

\* The ingestion stream has no more items.
IngestionEnds ==
    /\ ingestion_stream = "open"
    /\ ~ingestion_ready
    /\ ingestion_stream' = "exhausted"
    /\ parked' = FALSE
    /\ out' = NoItem /\ sel' = NoSelect /\ at' = NoContext
    /\ UNCHANGED <<producer, driver, stream_id, configuration_stream,
                   configuration_ready, ingestion_ready, seen>>

\* The select polls select_next_some() of a terminated stream: the
\* configuration stream first, the ingestion stream when the configuration
\* stream has no item ready.
SelectPanics ==
    /\ driver = "running" /\ ~parked
    /\ \E c \in {select_next_some(configuration_stream, configuration_ready)} :
       \E i \in {select_next_some(ingestion_stream, ingestion_ready)} :
          /\ IF c.poll = "Panic" THEN TRUE
             ELSE c.poll = "Pending" /\ i.poll = "Panic"
          /\ configuration_stream' = c.stream
          /\ sel' = Selected(IF c.poll = "Panic" THEN "configuration" ELSE "ingestion")
    /\ driver' = "panicked"
    /\ out' = NoItem /\ at' = NoContext
    /\ UNCHANGED <<producer, stream_id, ingestion_stream, configuration_ready,
                   ingestion_ready, parked, seen>>

NextSession ==
    \/ ConfigurationArrives
    \/ IngestionArrives
    \/ ConfigurationEnds
    \/ IngestionEnds
    \/ HandleStampedConfiguration
    \/ HandleIngestion
    \/ PollBatchCursor
    \/ SelectPanics

SpecSession == Init /\ [][NextSession]_vars

(***************************************************************************)
(* The driver on storage that holds every block and never fails, with     *)
(* input streams that stay open.  The task runs a pass of the select       *)
(* whenever it is awake, and no branch of the select is kept from running  *)
(* for ever by the items of the branches before it: a branch that can run  *)
(* again and again does run.                                               *)
(***************************************************************************)
LiveConfigurationInputs ==
    {Input(Ok(StreamConfiguration(id, None, f, MaxBatch)), FullStorage, FALSE) :
        id \in OneStreamId, f \in Finalities}

LiveIngestionInputs == {Input(Ok(m), FullStorage, FALSE) : m \in IngestionMessages}

LivePollInputs == {Input(Ok(0), FullStorage, FALSE)}

LiveConfigure == Configure(LiveConfigurationInputs)
LiveIngest == Ingest(LiveIngestionInputs)
LivePoll == Poll(LivePollInputs)

NextLive ==
    \/ ConfigurationArrives
    \/ IngestionArrives
    \/ LiveConfigure
    \/ LiveIngest
    \/ LivePoll

SpecLive ==
    /\ Init
    /\ [][NextLive]_vars
    /\ SF_vars(LiveConfigure)
    /\ SF_vars(LiveIngest)
    /\ SF_vars(LivePoll)

\* A poll of the producer on that storage gives a batch cursor.
Producible(p) ==
    LET Ready(r) == r.poll = "Ready" /\ r.item.tag = "Ok"
    IN  Ready(poll_next(p, FullStorage))

(***************************************************************************)
(* The cursor producer on its own: reconfigure is called on a producer in  *)
(* some earlier state, then handle_ingestion_message and poll_next in any  *)
(* order.  `at` keeps the whole input of the last call and what it         *)
(* returned, `out` what the call gave, `seen` the root a reconfigure moved *)
(* the stream to.                                                          *)
(***************************************************************************)
\* A block of the fork two blocks above the lowest one: the walk back from
\* it takes more than one step.
DeepFork == Cursor(MaxBlock + 1, 2)

ReconfigureInputs ==
    UNION {{Input(Ok(StreamConfiguration(id, sc, f, b)), s, FALSE) :
                s \in ReconfigureStorages(StreamConfiguration(id, sc, f, b))} :
              id \in OneStreamId, sc \in StartingCursors \cup {Some(DeepFork)},
              f \in Finalities, b \in BatchSizes}
    \cup {x \in ConfigurationInputs : x.item.tag = "Ok" /\ x.s.fail # "none"}

\* The producer before the call: never configured, or configured and
\* part way through a stream; with or without a waker stored by a poll.
ProducersBefore ==
    {Producer(cfg, ist, wk) :
        cfg \in {None,
                 Some(BatchConfiguration(None, FALSE, "Accepted", 1)),
                 Some(BatchConfiguration(Some(Cursor(1, 1)), TRUE, "Pending", 2))},
        ist \in {None,
                 Some(IngestionState(Some(Cursor(0, 1)), Some(Cursor(1, 1)), None)),
                 Some(IngestionState(None, Some(Cursor(0, 1)), Some(Cursor(1, 1))))},
        wk \in BOOLEAN}

\* The cursor reconfigure starts from, as storage holds it: the canonical
\* block at the number of a cursor whose hash is zero, the cursor itself
\* otherwise.
StartOf(configuration, s) ==
    LET Given(c) ==
            IF c.hash # 0 THEN Some(c)
            ELSE IF c.number < s.known THEN Some(Cursor(c.number, s.chain))
            ELSE None
    IN  IF configuration.starting_cursor = None THEN None
        ELSE Given(Get(configuration.starting_cursor))

IsCanonical(status) == status \in {Some("AcceptedOnL2"), Some("AcceptedOnL1")}

\* The first cursor with an accepted or finalized status among c, its
\* parent, the parent of its parent, and so on, as far as storage holds a
\* status and a header for each cursor on the way; None where the way back
\* breaks off at a cursor without status or without header.
RECURSIVE NearestCanonical(_, _)
NearestCanonical(s, c) ==
    IF IsCanonical(ChainStatus(s, c)) THEN Some(c)
    ELSE IF ChainStatus(s, c) = None THEN None
    ELSE IF ChainParent(s, c) = None THEN None
    ELSE NearestCanonical(s, Get(ChainParent(s, c)))

\* The way back from c: c, its parent, the parent of its parent, and so
\* on, up to the first cursor that has an accepted or finalized status, no
\* status or no header.
RECURSIVE WayBack(_, _)
WayBack(s, c) ==
    IF IsCanonical(ChainStatus(s, c)) \/ ChainStatus(s, c) = None
       \/ ChainParent(s, c) = None
    THEN <<c>>
    ELSE <<c>> \o WayBack(s, Get(ChainParent(s, c)))

NoCall ==
    [method |-> "none",
     before |-> Producer(None, None, FALSE),  \* the producer before the call
     configuration |-> None,        \* the configuration of a reconfigure
     message |-> None,              \* the message of a handle_ingestion_message
     start |-> None,                \* the cursor storage holds for the starting cursor
     start_status |-> None,         \* the status of that cursor in storage
     ancestor |-> None,             \* the nearest canonical ancestor of that cursor
     way |-> <<>>,                  \* the way back from that cursor
     way_end |-> None,              \* the status of the last cursor of the way
     res |-> Ok(RespOk),            \* what the call returned
     woke |-> FALSE,                \* the call woke the stored waker
     stage |-> "none",              \* for a poll_next: the stage it was called at
     block |-> None,                \*                  and the block of that stage
     storage_ok |-> FALSE,          \* for a poll_next: storage holds every block
                                    \* and does not fail
     storage_fails |-> FALSE,       \*                  a call of storage fails
     known |-> 0,                   \*                  the first block storage lacks
     last_kind |-> "none",          \*                  see last_kind
     floor |-> None,                \*                  see floor
     raised |-> FALSE,              \*                  see raised
     after |-> None,                \*                  the message handled by the call
                                    \*                  before it, if that was a
                                    \*                  handle_ingestion_message
     view |-> None]                 \* for a handle_ingestion_message: the ingestion
                                    \* state the message is applied to

ReconfigureCall(p, x, r) ==
    LET Start(start) ==
            [NoCall EXCEPT !.method = "reconfigure",
                           !.before = p,
                           !.configuration = Some(x.item.value),
                           !.start = start,
                           !.start_status =
                               IF IsSome(start) THEN ChainStatus(x.s, Get(start))
                               ELSE None,
                           !.ancestor =
                               IF IsSome(start) THEN NearestCanonical(x.s, Get(start))
                               ELSE None,
                           !.way =
                               IF IsSome(start) THEN WayBack(x.s, Get(start)) ELSE <<>>,
                           !.way_end =
                               IF IsSome(start)
                               THEN ChainStatus(x.s, WayBack(x.s, Get(start))[
                                                         Len(WayBack(x.s, Get(start)))])
                               ELSE None,
                           !.res = r.res,
                           !.woke = r.woke]
    IN  Start(StartOf(x.item.value, x.s))

IngestionCall(p, x, r) ==
    [NoCall EXCEPT !.method = "handle_ingestion_message",
                   !.before = p,
                   !.message = Some(x.item.value),
                   !.res = r.res,
                   !.woke = r.woke]

PollCall(p, o, x) ==
    [NoCall EXCEPT !.method = "poll_next", !.before = p,
                   !.stage = o.stage, !.block = o.block,
                   !.storage_ok = (x.s.fail = "none" /\ x.s.known = MaxBlock + 1),
                   !.storage_fails = (x.s.fail # "none"),
                   !.known = x.s.known,
                   !.last_kind = o.last_kind,
                   !.floor = o.floor,
                   !.raised = o.raised,
                   !.after = at.message]

\* The block a poll of the producer starts at, the finalized tip of its
\* ingestion state, and the end of the run of finalized blocks a poll
\* called on `before` is to emit, given the state `after` it.
NextOf(p) == IF IsSome(CurrentOf(p)) THEN Get(CurrentOf(p)).number + 1 ELSE 0
FinalizedOf(p) ==
    IF IsSome(p.ingestion_state) THEN Get(p.ingestion_state).finalized ELSE None
PendingOf(p) ==
    IF IsSome(p.ingestion_state) THEN Get(p.ingestion_state).pending ELSE None
AcceptedOf(p) ==
    IF IsSome(p.ingestion_state) THEN Get(p.ingestion_state).accepted ELSE None
\* How far a stream is: the number of current, -1 when current is None.
Level(current) == IF IsSome(current) THEN Get(current).number ELSE -1
\* Block n lies above the tip, or there is no tip.
Above(n, tip) == IsSome(tip) => n > Get(tip).number
EndOf(before, after) ==
    Min(Get(FinalizedOf(after)).number,
        NextOf(before) + Get(before.configuration).batch_size - 1)

\* What the calls so far amount to: the root the last reconfigure moved the
\* stream to, until a later Invalidate; and how far a stream of Pending
\* finality is with the block above the accepted tip:
\*   "caught_up"  every block up to the accepted tip was emitted;
\*   "pending"    then Pending(block) was handled, block the one above the tip;
\*   "sent"       then a poll was made;
\*   "accepted"   then Accepted(block) was handled.
\* last_kind is the kind of the last batch a poll gave since the last
\* reconfigure, "none" if there was none.  floor is the number of c for the
\* last Invalidate(c) handled with current at or above c, if no batch was
\* given since; raised says that a Pending, an Accepted or a Finalized
\* message with a number above floor was handled since.
NoRoot ==
    [root |-> None, stage |-> "none", block |-> None, last_kind |-> "none",
     floor |-> None, raised |-> FALSE,
     pending_since_tip |-> 0,       \* Pending batches given since the pending tip
                                    \* was last set (by a Pending message) or
                                    \* cleared (by an Invalidate)
     pending_since_tip_or_configuration |-> 0]
                                    \* ... since then or the last stored configuration

Emitted(o, item) ==
    IF item.type = "Data"
    THEN [o EXCEPT !.last_kind = item.finality, !.floor = None, !.raised = FALSE]
    ELSE o

Floor(o, call) ==
    LET Message(m, current) ==
            IF m.kind = "Invalidate"
            THEN (IF IsSome(current) /\ Get(current).number >= m.cursor.number
                  THEN [o EXCEPT !.floor = Some(m.cursor.number), !.raised = FALSE]
                  ELSE o)
            ELSE (IF IsSome(o.floor) /\ m.cursor.number > Get(o.floor)
                  THEN [o EXCEPT !.raised = TRUE]
                  ELSE o)
    IN  IF call.res.tag # "Ok" THEN o
        ELSE Message(Get(call.message), CurrentOf(call.before))

\* Pending finality, current at the accepted tip, no finalized or pending
\* block above it.
CaughtUp(p) ==
    /\ IsSome(p.configuration) /\ IsSome(p.ingestion_state)
    /\ Get(p.configuration).data_finality = "Pending"
    /\ IsSome(Get(p.configuration).current)
    /\ Get(p.ingestion_state).accepted = Get(p.configuration).current
    /\ \A tip \in {Get(p.ingestion_state).finalized, Get(p.ingestion_state).pending} :
          IsSome(tip) => Get(tip).number <= Get(Get(p.configuration).current).number

StageAfter(o, call, p) ==
    LET Stage(stage, block) == [o EXCEPT !.stage = stage, !.block = block]
    IN  CASE /\ o.stage = "caught_up" /\ call.method = "handle_ingestion_message"
             /\ call.res.tag = "Ok"
             /\ Get(call.message).kind = "Pending"
             /\ Get(call.message).cursor.number =
                    Get(Get(p.configuration).current).number + 1 ->
                Stage("pending", Some(Get(call.message).cursor))
          [] /\ o.stage = "pending" /\ call.method = "poll_next" /\ call.storage_ok ->
                Stage("sent", o.block)
          [] o.stage = "sent" /\ call.method = "poll_next" -> o
          [] /\ o.stage = "sent" /\ call.method = "handle_ingestion_message"
             /\ call.res.tag = "Ok"
             /\ Get(call.message).kind = "Accepted"
             /\ Get(call.message).cursor = Get(o.block) ->
                Stage("accepted", o.block)
          [] CaughtUp(p) -> Stage("caught_up", None)
          [] OTHER -> Stage("none", None)

InitProducer ==
    /\ producer \in ProducersBefore
    /\ driver = "running"
    /\ stream_id = 0
    /\ configuration_stream = "open"
    /\ ingestion_stream = "open"
    /\ configuration_ready = FALSE
    /\ ingestion_ready = FALSE
    /\ parked = FALSE
    /\ out = NoItem
    /\ sel = NoSelect
    /\ at = NoCall
    /\ seen = NoRoot

CallReconfigure ==
    /\ at.method = "none"
    /\ \E x \in ReconfigureInputs :
        \E r \in {reconfigure(producer, x.item.value, x.s)} :
        \E item \in {configuration_item(r.res)} :
              /\ producer' = r.producer
              /\ out' = item
              /\ at' = ReconfigureCall(producer, x, r)
              /\ seen' = StageAfter(IF item.type = "Invalidate"
                                    THEN [NoRoot EXCEPT !.root = Some(item.cursor.number)]
                                    ELSE NoRoot,
                                    ReconfigureCall(producer, x, r), r.producer)
    /\ UNCHANGED <<driver, stream_id, configuration_stream, ingestion_stream,
                   configuration_ready, ingestion_ready, parked, sel>>

CallHandleIngestionMessage ==
    /\ \E x \in {y \in IngestionInputs(producer) : y.item.tag = "Ok"} :
        \E r \in {handle_ingestion_message(producer, x.item.value, x.s)} :
        \E item \in {ingestion_item(r.res)} :
              /\ producer' = r.producer
              /\ out' = item
              /\ at' = IngestionCall(producer, x, r)
              /\ seen' = StageAfter(Floor(IF item.type = "Invalidate"
                                          THEN [seen EXCEPT !.root = None] ELSE seen,
                                          IngestionCall(producer, x, r)),
                                    IngestionCall(producer, x, r), r.producer)
    /\ UNCHANGED <<driver, stream_id, configuration_stream, ingestion_stream,
                   configuration_ready, ingestion_ready, parked, sel>>

CallPollNext ==
    /\ \E x \in {y \in PollInputs(producer) : ~y.fails} :
        \E r \in {poll_next(producer, x.s)} :
              /\ r.poll # "Panic"
              /\ producer' = r.producer
              /\ out' = batch_item(r, FALSE)
              /\ at' = PollCall(producer, seen, x)
              /\ seen' = StageAfter(Emitted(seen, batch_item(r, FALSE)),
                                    PollCall(producer, seen, x), r.producer)
    /\ UNCHANGED <<driver, stream_id, configuration_stream, ingestion_stream,
                   configuration_ready, ingestion_ready, parked, sel>>

NextProducer ==
    \/ CallReconfigure
    \/ CallHandleIngestionMessage
    \/ CallPollNext

SpecProducer == InitProducer /\ [][NextProducer]_vars

(***************************************************************************)
(* handle_ingestion_message as a function: one call, on a producer in any  *)
(* state a stream can have brought it to, of a message whose cursor is of  *)
(* either hash.  The ingestion source announces the cursors it likes, and  *)
(* an Invalidate leaves its cursor in the tips and in current, so every    *)
(* cursor may stand in every slot; pending_sent is set by the pending path *)
(* only.                                                                   *)
(***************************************************************************)
OptionalCursors == {None} \cup {Some(c) : c \in Cursors}

ProducersAny ==
    {Producer(cfg, ist, wk) :
        cfg \in {None}
                \cup {Some(BatchConfiguration(current, FALSE, "Accepted", 1)) :
                          current \in OptionalCursors}
                \cup {Some(BatchConfiguration(current, ps, "Pending", MaxBatch)) :
                          current \in OptionalCursors, ps \in BOOLEAN},
        ist \in {None}
                \cup {Some(IngestionState(f, a, p)) :
                          f \in OptionalCursors, a \in OptionalCursors,
                          p \in OptionalCursors},
        wk \in BOOLEAN}

AnyMessages ==
    {IngestionMessage(k, c) :
        k \in {"Pending", "Accepted", "Finalized", "Invalidate"}, c \in Cursors}

MessageInputs(p) ==
    {Input(Ok(m), x.s, FALSE) : m \in AnyMessages,
        x \in {y \in IngestionInputs(p) : y.item.tag = "Ok"}}

\* The ingestion state the message is applied to: the cached one, or the
\* one loaded from storage.
ViewOf(p, s) ==
    LET Loaded(st) == IF st.tag = "Ok" THEN st.value ELSE None
    IN  Loaded(get_ingestion_state_mut(p, s))

MessageCall(p, x, r) == [IngestionCall(p, x, r) EXCEPT !.view = ViewOf(p, x.s)]

InitMessage ==
    /\ producer \in ProducersAny
    /\ driver = "running"
    /\ stream_id = 0
    /\ configuration_stream = "open"
    /\ ingestion_stream = "open"
    /\ configuration_ready = FALSE
    /\ ingestion_ready = FALSE
    /\ parked = FALSE
    /\ out = NoItem
    /\ sel = NoSelect
    /\ at = NoCall
    /\ seen = NoRoot

HandleOneMessage ==
    /\ at.method = "none"
    /\ \E x \in MessageInputs(producer) :
        \E r \in {handle_ingestion_message(producer, x.item.value, x.s)} :
              /\ producer' = r.producer
              /\ out' = ingestion_item(r.res)
              /\ at' = MessageCall(producer, x, r)
    /\ UNCHANGED <<driver, stream_id, configuration_stream, ingestion_stream,
                   configuration_ready, ingestion_ready, parked, sel, seen>>

NextMessage == HandleOneMessage

SpecMessage == InitMessage /\ [][NextMessage]_vars

(***************************************************************************)
(* The pending tip over a stream that is configured again and again: the   *)
(* methods of the producer in any order, on streams of Accepted and of     *)
(* Pending finality.  `seen` counts the Pending batches, `at` keeps the    *)
(* method called last and the message handled before a poll.               *)
(***************************************************************************)
TipInputs ==
    {x \in ConfigurationInputs :
        /\ x.item.tag = "Ok" /\ ~x.fails
        /\ x.item.value.finality \in {"Accepted", "Pending"}
        /\ x.item.value.batch_size = 1}

\* The call stored a configuration.
Stored(res) == res.tag = "Ok" /\ res.value.kind # "MissingStartingCursor"

AfterStored(o) == [o EXCEPT !.pending_since_tip_or_configuration = 0]

\* The message handled set or cleared the pending tip.
AfterTip(o, message) ==
    IF message.kind \in {"Pending", "Invalidate"}
    THEN [o EXCEPT !.pending_since_tip = 0, !.pending_since_tip_or_configuration = 0]
    ELSE o

AfterBatch(o, item) ==
    IF item.type = "Data" /\ item.finality = "Pending"
    THEN [o EXCEPT !.pending_since_tip = Min(@ + 1, 2),
                   !.pending_since_tip_or_configuration = Min(@ + 1, 2)]
    ELSE o

ReconfigureAgain ==
    /\ \E x \in TipInputs :
        \E r \in {reconfigure(producer, x.item.value, x.s)} :
              /\ r.res.tag # "Diverge"
              /\ producer' = r.producer
              /\ out' = configuration_item(r.res)
              /\ seen' = IF Stored(r.res) THEN AfterStored(seen) ELSE seen
    /\ at' = [NoCall EXCEPT !.method = "reconfigure"]
    /\ UNCHANGED <<driver, stream_id, configuration_stream, ingestion_stream,
                   configuration_ready, ingestion_ready, parked, sel>>

HandleAgain ==
    /\ \E x \in {y \in IngestionInputs(producer) : y.item.tag = "Ok"} :
        \E r \in {handle_ingestion_message(producer, x.item.value, x.s)} :
              /\ producer' = r.producer
              /\ out' = ingestion_item(r.res)
              /\ at' = [NoCall EXCEPT !.method = "handle_ingestion_message",
                                      !.message = Some(x.item.value)]
              /\ seen' = IF r.res.tag = "Ok" THEN AfterTip(seen, x.item.value) ELSE seen
    /\ UNCHANGED <<driver, stream_id, configuration_stream, ingestion_stream,
                   configuration_ready, ingestion_ready, parked, sel>>

PollAgain ==
    /\ \E x \in {y \in PollInputs(producer) : ~y.fails} :
        \E r \in {poll_next(producer, x.s)} :
              /\ r.poll # "Panic"
              /\ producer' = r.producer
              /\ out' = batch_item(r, FALSE)
              /\ seen' = AfterBatch(seen, batch_item(r, FALSE))
    /\ at' = [NoCall EXCEPT !.method = "poll_next", !.after = at.message]
    /\ UNCHANGED <<driver, stream_id, configuration_stream, ingestion_stream,
                   configuration_ready, ingestion_ready, parked, sel>>

InitTip ==
    /\ producer = Producer(None, None, FALSE)
    /\ driver = "running"
    /\ stream_id = 0
    /\ configuration_stream = "open"
    /\ ingestion_stream = "open"
    /\ configuration_ready = FALSE
    /\ ingestion_ready = FALSE
    /\ parked = FALSE
    /\ out = NoItem
    /\ sel = NoSelect
    /\ at = NoCall
    /\ seen = NoRoot

NextTip ==
    \/ ReconfigureAgain
    \/ HandleAgain
    \/ PollAgain

SpecTip == InitTip /\ [][NextTip]_vars

(***************************************************************************)
(* The Data messages of a stream one after the other: the methods of the   *)
(* producer in any order, on streams of Finalized and of Pending finality  *)
(* (the latter gives batches of the three kinds), each batch made into the *)
(* Data message handle_batch_cursor builds from it.  `seen` keeps the last *)
(* Data message, `at` what a poll started from.                            *)
(***************************************************************************)
BatchInputs ==
    {x \in ConfigurationInputs :
        /\ x.item.tag = "Ok" /\ ~x.fails
        /\ x.item.value.finality \in {"Finalized", "Pending"}
        /\ x.item.value.batch_size >= 1}

\* last: the last Data message, if no reconfigure was called and no
\* Invalidate handled since.
NoData == [last |-> None]

NoPoll ==
    [method |-> "none",
     current |-> None,              \* for a poll_next: current before the call
     previous |-> None]             \*                  seen.last before the call

ReconfigureBetween ==
    /\ \E x \in BatchInputs :
        \E r \in {reconfigure(producer, x.item.value, x.s)} :
              /\ r.res.tag # "Diverge"
              /\ producer' = r.producer
              /\ out' = configuration_item(r.res)
    /\ seen' = NoData
    /\ at' = [NoPoll EXCEPT !.method = "reconfigure"]
    /\ UNCHANGED <<driver, stream_id, configuration_stream, ingestion_stream,
                   configuration_ready, ingestion_ready, parked, sel>>

HandleBetween ==
    /\ \E x \in {y \in IngestionInputs(producer) : y.item.tag = "Ok"} :
        \E r \in {handle_ingestion_message(producer, x.item.value, x.s)} :
              /\ producer' = r.producer
              /\ out' = ingestion_item(r.res)
              /\ seen' = IF x.item.value.kind = "Invalidate" THEN NoData ELSE seen
    /\ at' = [NoPoll EXCEPT !.method = "handle_ingestion_message"]
    /\ UNCHANGED <<driver, stream_id, configuration_stream, ingestion_stream,
                   configuration_ready, ingestion_ready, parked, sel>>

PollBatch ==
    /\ \E x \in {y \in PollInputs(producer) : ~y.fails} :
        \E r \in {poll_next(producer, x.s)} :
        \E item \in {batch_item(r, FALSE)} :
              /\ r.poll # "Panic"
              /\ producer' = r.producer
              /\ out' = item
              /\ seen' = IF item.type = "Data" THEN [last |-> Some(item)] ELSE seen
    /\ at' = [NoPoll EXCEPT !.method = "poll_next",
                            !.current = CurrentOf(producer),
                            !.previous = seen.last]
    /\ UNCHANGED <<driver, stream_id, configuration_stream, ingestion_stream,
                   configuration_ready, ingestion_ready, parked, sel>>

InitBatches ==
    /\ producer = Producer(None, None, FALSE)
    /\ driver = "running"
    /\ stream_id = 0
    /\ configuration_stream = "open"
    /\ ingestion_stream = "open"
    /\ configuration_ready = FALSE
    /\ ingestion_ready = FALSE
    /\ parked = FALSE
    /\ out = NoItem
    /\ sel = NoSelect
    /\ at = NoPoll
    /\ seen = NoData

NextBatches ==
    \/ ReconfigureBetween
    \/ HandleBetween
    \/ PollBatch

SpecBatches == InitBatches /\ [][NextBatches]_vars

(***************************************************************************)
(* The properties.                                                         *)
(***************************************************************************)

\* C1, as stated: after the driver emitted an Invalidate(c), every cursor
\* of every Data message emitted later has a block number > c.number,
\* whichever earlier Invalidate c is of.
C1_DataAboveEveryInvalidate ==
    (out.type = "Data" /\ IsSome(at.max_invalidated))
        => \A i \in DOMAIN out.data : out.data[i].number > Get(at.max_invalidated)

\* C1, amended: every cursor of a Data message has a block number greater
\* than that of the last Invalidate(c) emitted before it, provided no
\* configuration was stored between that Invalidate and the Data message.
C1_DataAboveLastInvalidate ==
    (out.type = "Data" /\ IsSome(at.last_invalidate))
        => \A i \in DOMAIN out.data : out.data[i].number > Get(at.last_invalidate)

C1_Witness == out.type = "Data" /\ IsSome(at.last_invalidate)

\* C2: handling an ingestion Invalidate(c) yields the Invalidate(c) message
\* if and only if a configuration is stored whose current has a block
\* number > c.number when the event is handled; otherwise nothing is yielded.
C2_InvalidateIffCurrentAbove ==
    (IsSome(at.message) /\ Get(at.message).kind = "Invalidate" /\ out.type # "Err")
        => IF at.configured /\ IsSome(at.current)
              /\ Get(at.current).number > Get(at.message).cursor.number
           THEN out = StreamDataResponse(stream_id, InvalidateItem(Get(at.message).cursor))
           ELSE out = NoItem

C2_Witness ==
    /\ IsSome(at.message) /\ Get(at.message).kind = "Invalidate"
    /\ out = StreamDataResponse(stream_id, InvalidateItem(Get(at.message).cursor))

\* C3: the select runs the ingestion branch only when no configuration is
\* ready and polls the cursor producer only when neither a configuration
\* nor an ingestion event is ready; a Data message comes from such a poll.
C3_StrictPriority ==
    /\ sel.branch = "configuration" => sel.configuration_ready
    /\ sel.branch = "ingestion" => sel.ingestion_ready /\ ~sel.configuration_ready
    /\ sel.branch = "batch_cursor" => ~sel.configuration_ready /\ ~sel.ingestion_ready
    /\ out.type = "Data" => sel.branch = "batch_cursor"

C3_Witness == sel.branch = "configuration" /\ sel.ingestion_ready

\* C4: with data_finality Finalized or Unknown only Finalized batches are
\* emitted, with Accepted no Pending batch, and a Pending batch only with
\* Pending; a poll in Finalized mode with current at or above the finalized
\* tip yields nothing, whatever the accepted tip.
C4_FinalityFilter ==
    /\ out.type = "Data" =>
          /\ Get(producer.configuration).data_finality \in {"Finalized", "Unknown"}
                => out.finality = "Finalized"
          /\ Get(producer.configuration).data_finality = "Accepted"
                => out.finality # "Pending"
          /\ out.finality = "Pending"
                => Get(producer.configuration).data_finality = "Pending"
    /\ (/\ sel.branch = "batch_cursor"
        /\ IsSome(producer.configuration) /\ IsSome(producer.ingestion_state)
        /\ Get(producer.configuration).data_finality = "Finalized"
        /\ IsSome(at.current)
        /\ IsSome(Get(producer.ingestion_state).finalized)
        /\ Get(at.current).number >= Get(Get(producer.ingestion_state).finalized).number)
          => out = NoItem /\ parked

C4_Witness ==
    /\ sel.branch = "batch_cursor" /\ out = NoItem
    /\ IsSome(producer.configuration) /\ IsSome(producer.ingestion_state)
    /\ Get(producer.configuration).data_finality = "Finalized"
    /\ IsSome(at.current)
    /\ IsSome(Get(producer.ingestion_state).finalized)
    /\ Get(at.current).number >= Get(Get(producer.ingestion_state).finalized).number
    /\ IsSome(Get(producer.ingestion_state).accepted)
    /\ Get(Get(producer.ingestion_state).accepted).number > Get(at.current).number

C6_OnePendingPerIngestionEvent == seen.pending_since_ingestion <= 1

\* C6, amended: at most one Pending batch is emitted between two
\* consecutive events of which each is an ingestion event or a reconfigure
\* that stored a configuration.
C6_OnePendingPerEvent == seen.pending_since_event <= 1

C6_Witness ==
    /\ seen.pending_since_event = 1
    /\ sel.branch = "batch_cursor" /\ out = NoItem
    /\ Get(producer.configuration).data_finality = "Pending"
    /\ Get(producer.configuration).pending_sent

\* C7: emitting a Pending batch leaves configuration.current unchanged, and
\* the first non-pending batch after a Pending batch for block N, with no
\* Invalidate message and no stored configuration between, starts at N.
C7_PendingNeverAdvances ==
    /\ (out.type = "Data" /\ out.finality = "Pending")
          => CurrentOf(producer) = at.current
    /\ (out.type = "Data" /\ out.finality # "Pending" /\ IsSome(at.after_pending))
          => out.data[1].number = Get(at.after_pending)

C7_Witness ==
    out.type = "Data" /\ out.finality # "Pending" /\ IsSome(at.after_pending)

\* C8: every Finalized batch has between 1 and batch_size cursors, none
\* with a block number above that of the finalized tip of the ingestion
\* state.
C8_FinalizedBatchBounds ==
    (out.type = "Data" /\ out.finality = "Finalized")
        => /\ Len(out.data) >= 1
           /\ Len(out.data) <= Get(producer.configuration).batch_size
           /\ \A i \in DOMAIN out.data :
                 out.data[i].number
                    <= Get(Get(producer.ingestion_state).finalized).number

\* C9: when reconfigure answers MissingStartingCursor the driver yields one
\* InvalidRequest error and the stream ends: it is the only error, and no
\* item follows it.
C9_MissingStartingCursorEnds ==
    seen.invalid_requests > 0
        => /\ seen.invalid_requests = 1 /\ seen.errors = 1
           /\ seen.after_error = 0
           /\ driver = "ended"

C9_Witness ==
    /\ seen.invalid_requests = 1 /\ driver = "ended"
    /\ configuration_ready /\ ingestion_ready

\* C10: after the driver yielded an error item, from whichever source, it
\* yields no further item: the stream has ended.
C10_ErrorTerminates ==
    seen.errors > 0
        => seen.errors = 1 /\ seen.after_error = 0 /\ driver = "ended"

C10_Witness ==
    /\ seen.errors = 1 /\ seen.invalid_requests = 0 /\ driver = "ended"
    /\ configuration_ready /\ ingestion_ready

\* C11: a reconfigure whose starting cursor has a status in storage that is
\* neither accepted nor finalized returns Invalidate(a), a the nearest
\* cursor with an accepted or finalized status on the way back along the
\* parents (a way on which storage holds a status and a header for every
\* cursor before a), and leaves current = Some(a); every cursor of a Data message
\* that follows, until the next reconfigure or Invalidate, has a number of
\* at least a.number + 1.
C11_ReconfigureWalksBack ==
    /\ (/\ at.method = "reconfigure"
        /\ IsSome(at.start_status) /\ ~IsCanonical(at.start_status)
        /\ IsSome(at.ancestor)
        /\ at.res.tag = "Ok")
         => /\ at.res.value = RespInvalidate(Get(at.ancestor))
            /\ CurrentOf(producer) = at.ancestor
    /\ (out.type = "Data" /\ IsSome(seen.root))
         => \A i \in DOMAIN out.data : out.data[i].number >= Get(seen.root) + 1

C11_Witness == out.type = "Data" /\ IsSome(seen.root)

\* C12: reconfigure returns Ok in exactly two cases: the configuration has
\* no starting cursor, and current becomes None; or the starting cursor as
\* storage resolves it (the canonical cursor at its number when its hash is
\* zero) has an accepted or finalized status, and current becomes that
\* cursor.  In both the stored configuration is replaced by one with the new
\* data_finality and batch_size and pending_sent = false.
C12_ReconfigureOk ==
    at.method = "reconfigure" =>
        LET configuration == Get(at.configuration)
            none == configuration.starting_cursor = None
            canonical == IsCanonical(at.start_status)
            ok == at.res.tag = "Ok" /\ at.res.value = RespOk
        IN  /\ ok => (none \/ canonical)
            /\ ((none \/ canonical) /\ at.res.tag = "Ok") => ok
            /\ ok => producer.configuration =
                        Some(BatchConfiguration(IF none THEN None ELSE at.start, FALSE,
                                                configuration.finality,
                                                configuration.batch_size))

C12_Witness ==
    /\ at.method = "reconfigure"
    /\ at.res = Ok(RespOk)
    /\ IsSome(at.start)
    /\ IsSome(at.before.configuration)
    /\ Get(at.before.configuration).pending_sent
    /\ Get(at.configuration).starting_cursor # at.start

\* C13: every Data and Invalidate message carries the stream_id of the last
\* configuration message the handler returned Ok for before the message
\* was yielded, the Invalidate that configuration itself produced included;
\* a configuration message whose handling failed leaves the driver's
\* stream_id as it was.
C13_StreamIdStamp ==
    /\ out.type \in {"Data", "Invalidate"} => seen.stream_id = Some(out.stream_id)
    /\ (sel.branch = "configuration" /\ out.type = "Err" /\ out.error = "Internal")
         => stream_id = at.stream_id

C13_Witness ==
    /\ sel.branch = "configuration"
    /\ out.type = "Invalidate"
    /\ out.stream_id = 2
    /\ at.stream_id = 1

\* C14, as stated: every call of reconfigure and of handle_ingestion_message
\* wakes the waker stored by the last poll_next that returned Pending,
\* once, if one is stored, and clears the slot, whatever the call returns.
C14_WakeOnEveryCall ==
    at.method \in {"reconfigure", "handle_ingestion_message"}
        => at.woke = at.before.waker /\ ~producer.waker

\* C14, amended: a call of reconfigure that returns Ok or Invalidate, and a
\* call of handle_ingestion_message that returns Ok or Invalidate, wakes the
\* stored waker, once, if one is stored, and clears the slot; a call that
\* returns MissingStartingCursor or an error wakes nothing and leaves the
\* slot as it was.
C14_WakeOnEveryChange ==
    at.method \in {"reconfigure", "handle_ingestion_message"}
        => IF at.res.tag = "Ok" /\ at.res.value.kind # "MissingStartingCursor"
           THEN at.woke = at.before.waker /\ ~producer.waker
           ELSE ~at.woke /\ producer = at.before

C14_Witness ==
    /\ at.method = "handle_ingestion_message"
    /\ at.before.waker
    /\ at.woke
    /\ ~producer.waker

\* C16: once an input stream, the configuration stream or the ingestion
\* stream, has returned its end, the output stream has ended.
C16_EndsWhenInputEnds ==
    (configuration_stream = "terminated" \/ ingestion_stream = "terminated")
        => driver = "ended"

\* C15: no wakeup is lost.  A reconfigure or an ingestion message handled
\* after a poll_next that returned Pending wakes the stored waker; and
\* whenever the producer can produce a batch cursor while the driver runs,
\* the driver yields a Data message, unless the producer stops being able
\* to or the stream ends first; storage does not fail and the input streams
\* do not stay ready forever.
C15_NoLostWakeup ==
    /\ []((sel.branch \in {"configuration", "ingestion"} /\ at.waker
             /\ driver = "running")
            => ~producer.waker)
    /\ (driver = "running" /\ Producible(producer))
          ~> (out.type = "Data" \/ driver # "running" \/ ~Producible(producer))

C15_Witness ==
    /\ sel.branch = "ingestion"
    /\ at.waker
    /\ driver = "running"
    /\ Producible(producer)

\* C17: in Pending mode, once every block up to the accepted tip A was
\* emitted a poll yields nothing; after an ingestion Pending(c) with
\* c.number = A.number + 1 a poll yields one Pending batch of that block,
\* the polls after it yield nothing until Accepted(c) is handled, then a
\* poll yields one Accepted batch of that block and the polls after it
\* yield nothing.  Storage holds the block and does not fail.
C17_PendingThenAccepted ==
    (at.method = "poll_next" /\ at.storage_ok) =>
        CASE at.stage \in {"caught_up", "sent"} -> out = NoItem
          [] at.stage = "pending" ->
                /\ out.type = "Data" /\ out.finality = "Pending"
                /\ out.data = <<Get(at.block)>>
          [] at.stage = "accepted" ->
                /\ out.type = "Data" /\ out.finality = "Accepted"
                /\ out.data = <<Get(at.block)>>
                /\ seen.stage = "caught_up"
          [] OTHER -> TRUE

C17_Witness ==
    /\ at.method = "poll_next"
    /\ at.stage = "accepted"
    /\ out.type = "Data"

\* C18: every batch starts at block number N = current.number + 1, 0 when
\* current is None, current being the cursor of the configuration just
\* before the poll, and holds consecutive blocks; a Finalized or Accepted
\* batch leaves current at its last cursor; so a Finalized or Accepted batch
\* starts at the block after the end of the one before it, when no
\* configuration was stored and no Invalidate yielded between the two.
C18_BatchesAreConsecutive ==
    out.type = "Data" =>
        /\ out.cursor = at.current
        /\ out.data[1].number = IF IsSome(at.current) THEN Get(at.current).number + 1 ELSE 0
        /\ \A i \in DOMAIN out.data : out.data[i].number = out.data[1].number + i - 1
        /\ out.finality # "Pending" =>
              /\ CurrentOf(producer) = Some(out.data[Len(out.data)])
              /\ IsSome(at.last_batch_end) =>
                    out.data[1].number = Get(at.last_batch_end) + 1

C18_Witness ==
    /\ out.type = "Data"
    /\ out.finality = "Accepted"
    /\ IsSome(at.last_batch_end)
    /\ IsSome(at.after_pending)

\* C19: when the ingestion state has finalized = Some(F), N <= F.number and
\* storage holds the canonical block at every number, a poll yields the
\* Finalized batch of the canonical cursors of the blocks N, N + 1, ...,
\* min(F.number, N + batch_size - 1), in increasing order.
C19_FinalizedBatchRange ==
    (/\ at.method = "poll_next" /\ at.storage_ok
     /\ IsSome(at.before.configuration)
     /\ IsSome(FinalizedOf(producer))
     /\ NextOf(at.before) <= Get(FinalizedOf(producer)).number)
        => IF EndOf(at.before, producer) < NextOf(at.before) THEN out.type # "Data"
           ELSE /\ out.type = "Data" /\ out.finality = "Finalized"
                /\ out.data = [i \in 1..(EndOf(at.before, producer) - NextOf(at.before) + 1)
                                 |-> Cursor(NextOf(at.before) + i - 1, 1)]

\* C20: a gap of storage on the finalized path.  When the first block
\* storage does not hold, k, lies between N and end = min(F.number,
\* N + batch_size - 1), a poll yields the Finalized batch of the blocks
\* N..k-1 and leaves current at block k - 1; when k = N it yields nothing,
\* neither an Accepted nor a Pending batch, and leaves current as it was.
\* The next poll starts at block k again.
C20_FinalizedGap ==
    (/\ at.method = "poll_next" /\ ~at.storage_fails
     /\ IsSome(at.before.configuration)
     /\ IsSome(FinalizedOf(producer))
     /\ NextOf(at.before) <= at.known
     /\ at.known <= EndOf(at.before, producer))
        => /\ IF at.known = NextOf(at.before)
              THEN out = NoItem /\ producer.configuration = at.before.configuration
              ELSE /\ out.type = "Data" /\ out.finality = "Finalized"
                   /\ out.data = [i \in 1..(at.known - NextOf(at.before))
                                    |-> Cursor(NextOf(at.before) + i - 1, 1)]
                   /\ CurrentOf(producer) = Some(Cursor(at.known - 1, 1))
           /\ NextOf(producer) = at.known

C20_Witness ==
    /\ at.method = "poll_next" /\ ~at.storage_fails
    /\ out.type = "Data" /\ out.finality = "Finalized"
    /\ at.known > NextOf(at.before)
    /\ at.known <= EndOf(at.before, producer)

\* C21: the finalized path comes first whatever the data_finality.  A poll
\* of a producer whose ingestion state has finalized = Some(F) with
\* N <= F.number gives no Accepted and no Pending batch; it gives a
\* Finalized batch starting at block N when storage holds block N and the
\* run N..min(F.number, N + batch_size - 1) is not empty.  This holds for
\* streams of Accepted and of Pending finality too, and after an Accepted
\* batch.
C21_FinalizedFirst ==
    (/\ at.method = "poll_next" /\ ~at.storage_fails
     /\ IsSome(at.before.configuration)
     /\ IsSome(FinalizedOf(producer))
     /\ NextOf(at.before) <= Get(FinalizedOf(producer)).number)
        => /\ out.type = "Data" => out.finality = "Finalized"
           /\ (at.known > NextOf(at.before)
                /\ EndOf(at.before, producer) >= NextOf(at.before))
                 => /\ out.type = "Data" /\ out.finality = "Finalized"
                    /\ out.data[1].number = NextOf(at.before)

C21_Witness ==
    /\ at.method = "poll_next"
    /\ out.type = "Data" /\ out.finality = "Finalized"
    /\ Get(at.before.configuration).data_finality = "Accepted"
    /\ at.last_kind = "Accepted"
    /\ IsSome(at.after) /\ Get(at.after).kind = "Finalized"

\* C22: the accepted path.  With data_finality Accepted or Pending, a poll
\* at a block N above the finalized tip (or without one) and at or below the
\* accepted tip, N held by storage, gives one Accepted batch of the
\* canonical block N alone, its start the current before the poll, and
\* leaves current at block N (N = 0 when current is None).  With N above
\* the accepted tip as well no Accepted batch is given, and a stream of
\* Accepted finality is given nothing, until a message raises a tip.
C22_AcceptedPath ==
    (/\ at.method = "poll_next" /\ ~at.storage_fails
     /\ IsSome(at.before.configuration)
     /\ Get(at.before.configuration).data_finality \in {"Accepted", "Pending"}
     /\ IsSome(producer.ingestion_state)
     /\ Above(NextOf(at.before), FinalizedOf(producer)))
        => IF IsSome(AcceptedOf(producer))
              /\ NextOf(at.before) <= Get(AcceptedOf(producer)).number
           THEN at.known > NextOf(at.before)
                  => /\ out.type = "Data" /\ out.finality = "Accepted"
                     /\ out.data = <<Cursor(NextOf(at.before), 1)>>
                     /\ out.cursor = CurrentOf(at.before)
                     /\ CurrentOf(producer) = Some(Cursor(NextOf(at.before), 1))
           ELSE /\ ~(out.type = "Data" /\ out.finality = "Accepted")
                /\ Get(at.before.configuration).data_finality = "Accepted"
                      => out = NoItem

C22_Witness ==
    /\ at.method = "poll_next"
    /\ out.type = "Data" /\ out.finality = "Accepted"
    /\ at.last_kind = "Accepted"
    /\ IsSome(at.after) /\ Get(at.after).kind = "Accepted"
    /\ FinalizedOf(producer) = None

\* C23: a stream of Finalized finality on storage that holds every block.
\* A poll at a block N above the finalized tip, or without a finalized tip,
\* gives nothing; a poll at a block N at or below the finalized tip F, as
\* after a Finalized(c) that raised the tip above current, gives a
\* Finalized batch that starts at block N and ends at or below F: so the
\* polls after Finalized(c) cover the blocks current + 1 .. c.number and the
\* polls after them give nothing.
C23_FinalizedUpToTip ==
    (/\ at.method = "poll_next" /\ at.storage_ok
     /\ IsSome(at.before.configuration)
     /\ Get(at.before.configuration).data_finality = "Finalized"
     /\ IsSome(producer.ingestion_state))
        => IF Above(NextOf(at.before), FinalizedOf(producer))
           THEN out = NoItem
           ELSE /\ out.type = "Data" /\ out.finality = "Finalized"
                /\ out.data[1].number = NextOf(at.before)
                /\ out.data[Len(out.data)].number <= Get(FinalizedOf(producer)).number

\* C24: after an ingestion Invalidate(c) was handled with current at or
\* above block c, every poll gives nothing until a Pending, an Accepted or a
\* Finalized message with a number above c.number is handled; the first
\* batch given after the Invalidate starts at block c.number + 1.
C24_NothingAfterInvalidate ==
    (at.method = "poll_next" /\ IsSome(at.floor))
        => /\ ~at.raised => out = NoItem
           /\ out.type = "Data" => out.data[1].number = Get(at.floor) + 1

C24_Witness ==
    /\ at.method = "poll_next"
    /\ IsSome(at.floor) /\ at.raised
    /\ out.type = "Data"
    /\ at.last_kind # "none"

\* The lower of a present cursor and c by block number, with the hash of
\* the lower one; either of the two when their numbers are equal.
IsLower(before, c, after) ==
    IF before = None THEN after = None
    ELSE /\ IsSome(after)
         /\ Get(after).number = Min(Get(before).number, c.number)
         /\ Get(before).number < c.number => after = before
         /\ c.number < Get(before).number => after = Some(c)
         /\ Get(after) \in {Get(before), c}

\* C25: handling an ingestion Invalidate(c) sets pending = None and
\* replaces each of accepted, finalized and configuration.current that is
\* present by the lower of itself and c by block number, with the hash of
\* the cursor of the lower number; an absent one stays absent, and
\* data_finality, batch_size and pending_sent stay as they are.
C25_InvalidateClamps ==
    (/\ at.method = "handle_ingestion_message" /\ at.res.tag = "Ok"
     /\ Get(at.message).kind = "Invalidate")
        => LET c == Get(at.message).cursor
               state == Get(producer.ingestion_state)
           IN  /\ state.pending = None
               /\ IsLower(Get(at.view).accepted, c, state.accepted)
               /\ IsLower(Get(at.view).finalized, c, state.finalized)
               /\ IsLower(CurrentOf(at.before), c, CurrentOf(producer))
               /\ IsSome(producer.configuration) = IsSome(at.before.configuration)
               /\ IsSome(producer.configuration) =>
                     producer.configuration =
                        Some([Get(at.before.configuration) EXCEPT
                                 !.current = CurrentOf(producer)])

C25_Witness ==
    /\ at.method = "handle_ingestion_message" /\ at.res.tag = "Ok"
    /\ Get(at.message).kind = "Invalidate"
    /\ IsSome(at.before.configuration)
    /\ Get(at.before.configuration).pending_sent
    /\ IsSome(CurrentOf(at.before))
    /\ Get(CurrentOf(at.before)).hash # Get(at.message).cursor.hash
    /\ CurrentOf(producer) = Some(Get(at.message).cursor)
    /\ IsSome(Get(at.view).pending)
    /\ Get(at.view).accepted = None
    /\ IsSome(Get(at.view).finalized)
    /\ Get(producer.ingestion_state).finalized = Get(at.view).finalized

\* C26: handling an ingestion Accepted(c) sets accepted = Some(c) and
\* finalized = None, whatever finalized was, returns Ok and leaves pending
\* and the configuration (pending_sent and current with it) as they were;
\* handling Finalized(c) sets finalized = Some(c), returns Ok and leaves
\* the rest of the ingestion state and the configuration as they were.
C26_AcceptedAndFinalized ==
    (/\ at.method = "handle_ingestion_message" /\ at.res.tag = "Ok"
     /\ Get(at.message).kind \in {"Accepted", "Finalized"})
        => LET c == Get(at.message).cursor
               view == Get(at.view)
           IN  /\ at.res.value = RespOk
               /\ producer.configuration = at.before.configuration
               /\ producer.ingestion_state =
                     IF Get(at.message).kind = "Accepted"
                     THEN Some(IngestionState(None, Some(c), view.pending))
                     ELSE Some(IngestionState(Some(c), view.accepted, view.pending))

C26_Witness ==
    /\ at.method = "handle_ingestion_message" /\ at.res.tag = "Ok"
    /\ Get(at.message).kind = "Accepted"
    /\ IsSome(Get(at.view).finalized)
    /\ Get(Get(at.view).finalized).number > Get(at.message).cursor.number
    /\ IsSome(Get(at.view).pending)
    /\ IsSome(at.before.configuration)
    /\ Get(at.before.configuration).pending_sent
    /\ Get(producer.ingestion_state).finalized = None

\* C28: a poll never lowers the block number of configuration.current (nor
\* takes current away); of the ingestion messages only an Invalidate(c)
\* changes current, to the lower of current and c by block number, so never
\* to a higher number.  What else lowers current is a reconfigure.
C28_PollNeverLowersCurrent ==
    /\ at.method = "poll_next" =>
          Level(CurrentOf(producer)) >= Level(CurrentOf(at.before))
    /\ (at.method = "handle_ingestion_message" /\ at.res.tag = "Ok") =>
          IF Get(at.message).kind = "Invalidate"
          THEN /\ Level(CurrentOf(producer)) =
                     Min(Level(CurrentOf(at.before)), Get(at.message).cursor.number)
               /\ Level(CurrentOf(producer)) <= Level(CurrentOf(at.before))
          ELSE CurrentOf(producer) = CurrentOf(at.before)
    /\ (at.method = "handle_ingestion_message" /\ at.res.tag # "Ok") =>
          CurrentOf(producer) = CurrentOf(at.before)

C28_Witness ==
    /\ at.method = "poll_next"
    /\ Level(CurrentOf(producer)) > Level(CurrentOf(at.before))
    /\ IsSome(at.floor)
    /\ at.last_kind = "Pending"

\* C29: when a call of storage fails in a poll of the cursor producer, the
\* load of the ingestion state or the lookup of a canonical block, the
\* poll is ready with an Internal error: the driver yields that error, no
\* Data message, does not wait, and the stream ends.
C29_StorageErrorEndsStream ==
    (sel.branch = "batch_cursor" /\ at.storage_failed)
        => /\ out = ErrorItem("Internal")
           /\ driver = "ended"
           /\ ~parked
           /\ seen.errors = 1

C29_Witness ==
    /\ sel.branch = "batch_cursor" /\ at.storage_failed
    /\ IsSome(producer.ingestion_state)
    /\ out.type = "Err"
    /\ IsSome(seen.max_invalidated)

\* C30: the walk back of reconfigure ends.  On storage where the parent of
\* every header has a lower block number, a reconfigure from a cursor whose
\* status is neither accepted nor finalized returns, unless a call of
\* storage fails: Invalidate(a) when the way back reaches a cursor a with
\* an accepted or finalized status, MissingStartingCursor when it reaches
\* first a cursor without status or without header.  The way back is no
\* longer than the block number it starts from allows.
C30_WalkBackEnds ==
    (/\ at.method = "reconfigure"
     /\ IsSome(at.start_status) /\ ~IsCanonical(at.start_status)
     /\ at.res.tag # "Err")
        => /\ \A i \in 1..(Len(at.way) - 1) : at.way[i + 1].number < at.way[i].number
           /\ Len(at.way) <= Get(at.start).number + 1
           /\ at.res.tag = "Ok"
           /\ at.res.value = IF IsCanonical(at.way_end)
                             THEN RespInvalidate(at.way[Len(at.way)])
                             ELSE RespMissingStartingCursor

C30_Witness ==
    /\ at.method = "reconfigure"
    /\ at.start_status = Some("Rejected")
    /\ Len(at.way) = 2
    /\ at.way_end = None
    /\ at.res = Ok(RespMissingStartingCursor)

\* C27, as stated: while a pending tip stays as the ingestion source
\* announced it, neither announced anew nor cleared by an Invalidate, at
\* most one Pending batch is emitted, whatever polls, reconfigure calls and
\* other ingestion messages occur.
C27_OnePendingPerTip == seen.pending_since_tip <= 1

\* C27, amended: at most one Pending batch is emitted while a pending tip
\* stays as announced and no reconfigure stores a configuration; a stored
\* configuration has pending_sent = false, and the tip is sent again.
C27_OnePendingPerTipAndConfiguration == seen.pending_since_tip_or_configuration <= 1

C27_Witness ==
    /\ seen.pending_since_tip_or_configuration = 1
    /\ at.method = "poll_next" /\ out = NoItem
    /\ IsSome(at.after) /\ Get(at.after).kind = "Accepted"
    /\ IsSome(producer.ingestion_state)
    /\ IsSome(Get(producer.ingestion_state).pending)
    /\ NextOf(producer) <= Get(Get(producer.ingestion_state).pending).number
    /\ Above(NextOf(producer), AcceptedOf(producer))
    /\ Above(NextOf(producer), FinalizedOf(producer))
    /\ Get(producer.configuration).data_finality = "Pending"

\* C31: until a reconfigure has stored a configuration the driver yields no
\* Data and no Invalidate message, whatever ingestion messages, an
\* Invalidate among them, it handles and however often it polls the
\* producer.
C31_NothingBeforeConfiguration ==
    /\ out.type \in {"Data", "Invalidate"} => IsSome(producer.configuration)
    /\ (sel.branch \in {"ingestion", "batch_cursor"} /\ producer.configuration = None)
          => out.type \in {"None", "Err"}

C31_Witness ==
    /\ sel.branch = "ingestion"
    /\ IsSome(at.message) /\ Get(at.message).kind = "Invalidate"
    /\ producer.configuration = None
    /\ out = NoItem
    /\ IsSome(producer.ingestion_state)
    /\ IsSome(Get(producer.ingestion_state).accepted)
    /\ producer.waker = FALSE /\ at.waker

\* C32: the cursor of a Data message is the current of the producer just
\* before the poll that gave the batch.  So of two Data messages one after
\* the other, no reconfigure called and no Invalidate handled between them,
\* the second has for cursor the end_cursor of the first where the first is
\* a Finalized or an Accepted batch, and the cursor of the first where the
\* first is a Pending batch.
C32_DataStartsAtCurrent ==
    (at.method = "poll_next" /\ out.type = "Data")
        => /\ out.cursor = at.current
           /\ IsSome(at.previous) =>
                 out.cursor = IF Get(at.previous).finality = "Pending"
                              THEN Get(at.previous).cursor
                              ELSE Get(at.previous).end_cursor

\* An Accepted batch follows a Finalized batch.
C32_Witness ==
    /\ at.method = "poll_next" /\ out.type = "Data"
    /\ out.finality = "Accepted"
    /\ IsSome(at.previous)
    /\ Get(at.previous).finality = "Finalized"
    /\ IsSome(out.cursor)
    /\ out.cursor = Get(at.previous).end_cursor

\* C33: a call of reconfigure that returns MissingStartingCursor or an error
\* of storage leaves the stored configuration of the producer (current,
\* pending_sent, data_finality, batch_size) and its ingestion state as they
\* were before the call.
C33_FailedReconfigureKeepsProducer ==
    (/\ at.method = "reconfigure"
     /\ \/ at.res.tag = "Err"
        \/ at.res.tag = "Ok" /\ at.res.value.kind = "MissingStartingCursor")
        => /\ producer.configuration = at.before.configuration
           /\ producer.ingestion_state = at.before.ingestion_state

C33_Witness ==
    /\ at.method = "reconfigure"
    /\ at.res = Ok(RespMissingStartingCursor)
    /\ at.before.configuration =
           Some(BatchConfiguration(Some(Cursor(1, 1)), TRUE, "Pending", 2))
    /\ IsSome(at.before.ingestion_state)
    /\ Get(at.configuration).finality = "Finalized"
    /\ Get(at.configuration).batch_size = 1
    /\ producer.configuration = at.before.configuration
    /\ producer.ingestion_state = at.before.ingestion_state

\* C34: on the finalized path, taken by a poll of a configured producer
\* whose ingestion state has a finalized tip F with N <= F.number, the end
\* of the run N + batch_size - 1 is computed in u64 without underflow and
\* without overflow, whatever configuration reconfigure stored, batch_size
\* = 0 with current = None (N = 0) too: the poll does not abort, and the
\* value computed is the number N + batch_size - 1, on a build with
\* overflow checks and on one without.
C34_EndOfRunInRange ==
    (/\ sel.branch = "batch_cursor" /\ at.configured
     /\ IsSome(FinalizedOf(producer))
     /\ Level(at.current) + 1 <= Get(FinalizedOf(producer)).number)
        => /\ driver # "panicked"
           /\ \A overflow_checks \in BOOLEAN :
                 batch_end(Level(at.current) + 1,
                           Get(producer.configuration).batch_size, overflow_checks)
                    = Ok(Level(at.current) + Get(producer.configuration).batch_size)

\* C35: a poll gives a Pending batch only when N = current.number + 1, 0
\* when current is None, is above the accepted tip and above the finalized
\* tip, where the ingestion state has them, and at or below the number of
\* the pending tip.  The batch carries one cursor, the canonical block
\* storage holds at number N: its number is N, also when the pending tip
\* has a greater number.
C35_PendingBatchAtNext ==
    (at.method = "poll_next" /\ out.type = "Data" /\ out.finality = "Pending")
        => /\ Above(NextOf(at.before), AcceptedOf(producer))
           /\ Above(NextOf(at.before), FinalizedOf(producer))
           /\ IsSome(PendingOf(producer))
           /\ NextOf(at.before) <= Get(PendingOf(producer)).number
           /\ NextOf(at.before) < at.known
           /\ Len(out.data) = 1
           /\ out.data[1].number = NextOf(at.before)
           /\ out.data[1].hash \in ChainHashes
           /\ out.end_cursor = Some(out.data[1])

C35_Witness ==
    /\ at.method = "poll_next" /\ out.type = "Data" /\ out.finality = "Pending"
    /\ IsSome(PendingOf(producer))
    /\ Get(PendingOf(producer)).number > NextOf(at.before)
    /\ out.data[1].number = NextOf(at.before)

====
